---- MODULE Spec2Model ----
(***************************************************************************)
(* Model of the AFC test harness' response mask runner                     *)
(* (src/src/harness/response_mask_runner.py) together with the entity      *)
(* classes and validators it calls.                                        *)
(*                                                                         *)
(* Python values are represented as follows.                               *)
(*   - an optional value is None (the empty tuple) or Some(x) = <<x>>;     *)
(*   - lists are sequences, dataclass instances are records;               *)
(*   - a response code is a record [cls, value]: cls names the class of    *)
(*     the object ("int" for a plain int).  Two members of different Enum  *)
(*     classes never compare equal and an Enum member never equals an int, *)
(*     which record equality reproduces;                                   *)
(*   - a call's outcome is [result, phase, log]: result is "True" or       *)
(*     "False" (the returned boolean) or the name of the exception that    *)
(*     left the call, phase is where the call ended, log is the sequence   *)
(*     of records handed to _info/_warning/_error/_fatal.                  *)
(***************************************************************************)
EXTENDS Integers, Sequences, FiniteSets, TLC

VARIABLES
  call,              \* the entry point called: "run_test_response" or
                     \* "run_test_response_message"
  expected,          \* its argument expected: a mask or a message of masks
  received,          \* its argument received: a response or a message
  validate_objects,  \* its argument validate_objects
  pc,                \* "ready" before the call, "done" after it
  outcome,           \* what the call returned or raised, and its log
  _enforce_strict_polygon,  \* InquiryRequestValidator._enforce_strict_polygon
  _geopy_available,  \* available_spectrum_inquiry_request._geopy_available:
                     \* the optional module geopy could be imported
  recv_item,         \* run_test_response: the position of the for loop of
                     \* line 117 in received.availableFrequencyInfo
  cursor,            \* run_test_response: curr_freq of the running while loop
  base_url,          \* AfcConnectionHandler.base_url, by its scheme
  auth_info,         \* AfcConnectionHandler.auth_info, by its type
  _resp,             \* AfcConnectionHandler._resp
  sent,              \* how many times send_request was called on the handler
  tests,             \* test_main.main: the list of test names
  test_name,         \* test_main.main: the position of the loop in tests
  _named_results,    \* TestResultStorage._named_results
  _count_results     \* TestResultStorage._count_results

\* The local variables of the frequency sweep
sweep_vars == <<recv_item, cursor>>
\* The fields of an AfcConnectionHandler
afc_vars == <<base_url, auth_info, _resp, sent>>
\* The test list of main and its TestResultStorage
main_vars == <<tests, test_name, _named_results, _count_results>>

vars == <<call, expected, received, validate_objects, pc, outcome,
          _enforce_strict_polygon, _geopy_available,
          sweep_vars, afc_vars, main_vars>>

-----------------------------------------------------------------------------
(* Bounds of the model *)

\* Frequencies range over 0..MaxFreq
MaxFreq == 3
\* The longest expectedFrequencyInfo list
MaxExpFreq == 2
\* The longest availableFrequencyInfo list
MaxRecvFreq == 1
\* Power bounds range over 0..MaxPower
MaxPower == 2
\* Channel centre frequency indices range over 1..MaxCfi
MaxCfi == 2
\* The most calls of send_request on one handler
MaxSent == 3
\* The longest list of tests
MaxTests == 3

-----------------------------------------------------------------------------
(* Python helpers *)

None == <<>>
Some(x) == <<x>>
IsNone(o) == o = <<>>
Get(o) == o[1]

Min(a, b) == IF a <= b THEN a ELSE b
Max(a, b) == IF a >= b THEN a ELSE b

\* float('-inf'): below every power value of the model
NegInf == -1000

\* float('nan'): a value that is no power value of the model
NaN == 1000

\* math.isnan
isnan(x) == x = NaN

\* Python's a > b on floats: False when either side is NaN
Greater(a, b) == ~isnan(a) /\ ~isnan(b) /\ a > b

\* Sequences over S of length 0..n
SeqsUpTo(S, n) == UNION {[1..k -> S] : k \in 0..n}

RECURSIVE SeqToSet(_)
SeqToSet(s) == IF s = <<>> THEN {} ELSE {Head(s)} \cup SeqToSet(Tail(s))

\* x in lst
In(x, lst) == \E i \in 1..Len(lst) : lst[i] = x

-----------------------------------------------------------------------------
(* Logging: test_harness_logging.TestHarnessLogger *)

\* One record per call of _info/_warning/_error/_fatal.  msg names the
\* message, item the received element it is about (0: none), ref the mask
\* element it was compared with (0: none), a and b the two numbers quoted.
LogRec(level, msg, item, ref, a, b) ==
  [level |-> level, msg |-> msg, item |-> item, ref |-> ref, a |-> a, b |-> b]

_info(msg, item, ref, a, b) == LogRec("info", msg, item, ref, a, b)
_warning(msg, item, ref, a, b) == LogRec("warning", msg, item, ref, a, b)
_error(msg, item, ref, a, b) == LogRec("error", msg, item, ref, a, b)
_fatal(msg, item, ref, a, b) == LogRec("fatal", msg, item, ref, a, b)

-----------------------------------------------------------------------------
(* Response codes *)

\* The members of either ResponseCode enumeration, in definition order
ResponseCodeMembers == <<-1, 0, 100, 101, 102, 103, 106, 300, 301>>

ResponseCodeValues == SeqToSet(ResponseCodeMembers)

\* cls(code): the call ResponseCode(code) of the enumeration cls, inside
\* suppress(ValueError): a value of the enumeration becomes its member, any
\* other object is left as it is
EnumOrRaw(cls, code) ==
  IF code.cls = cls THEN code
  ELSE IF code.cls = "int" /\ code.value \in ResponseCodeValues
       THEN [cls |-> cls, value |-> code.value]
       ELSE code

IntCode(n) == [cls |-> "int", value |-> n]

\* available_spectrum_inquiry_response.ResponseCode
RespCls == "available_spectrum_inquiry_response.ResponseCode"
\* interface_common.ResponseCode
CommonCls == "interface_common.ResponseCode"

\* interface_common.ResponseCode.get_raw_value
get_raw_value(code) ==
  IF code.cls = "int" THEN Some(code.value)
  ELSE IF code.cls = CommonCls THEN Some(code.value)
  ELSE None

-----------------------------------------------------------------------------
(* Entities: interface_common, expected_inquiry_response,                  *)
(* available_spectrum_inquiry_response                                     *)

FrequencyRange(low, high) == [lowFrequency |-> low, highFrequency |-> high]

\* FrequencyRange.overlaps
overlaps(self, other) ==
  self.lowFrequency < other.highFrequency /\ other.lowFrequency < self.highFrequency

\* ExpectedPowerRange and its __post_init__: nominalValue and lowerBound are
\* optional, an omitted lowerBound becomes float('-inf')
ExpectedPowerRange(upperBound, nominalValue, lowerBound) ==
  [upperBound |-> upperBound,
   nominalValue |-> nominalValue,
   lowerBound |-> IF IsNone(lowerBound) THEN NegInf ELSE Get(lowerBound)]

\* in_range with the upper bound excluded
in_range_UpperExcluded(self, val) == self.lowerBound <= val /\ val < self.upperBound

\* ExpectedPowerRange.in_range
in_range(self, val) == self.lowerBound <= val /\ val <= self.upperBound

\* ExpectedAvailableFrequencyInfo from its dict: maxPsd is the dict of an
\* ExpectedPowerRange
ExpectedAvailableFrequencyInfo(d) ==
  [frequencyRange |-> d.frequencyRange,
   maxPsd |-> ExpectedPowerRange(d.maxPsd.upperBound, d.maxPsd.nominalValue,
                                 d.maxPsd.lowerBound)]

\* ExpectedAvailableChannelInfo from its dict: maxEirp is a list of dicts of
\* ExpectedPowerRange
ExpectedAvailableChannelInfo(d) ==
  LET conv(p) == ExpectedPowerRange(p.upperBound, p.nominalValue, p.lowerBound)
  IN [globalOperatingClass |-> d.globalOperatingClass,
      channelCfi |-> d.channelCfi,
      maxEirp |-> [k \in 1..Len(d.maxEirp) |-> conv(d.maxEirp[k])]]

\* Python's < on lists of numbers
RECURSIVE ListLess(_, _)
ListLess(a, b) ==
  IF b = <<>> THEN FALSE
  ELSE IF a = <<>> THEN TRUE
  ELSE IF Head(a) < Head(b) THEN TRUE
  ELSE IF Head(b) < Head(a) THEN FALSE
  ELSE ListLess(Tail(a), Tail(b))

\* list.sort(key=...) on a list of <<key, element>> pairs, the key a list of
\* numbers: stable
RECURSIVE InsertSorted(_, _)
InsertSorted(x, s) ==
  IF s = <<>> THEN <<x>>
  ELSE IF ListLess(x[1], Head(s)[1]) THEN <<x>> \o s
  ELSE <<Head(s)>> \o InsertSorted(x, Tail(s))

RECURSIVE SortBy(_)
SortBy(s) ==
  IF s = <<>> THEN <<>>
  ELSE InsertSorted(s[Len(s)], SortBy(SubSeq(s, 1, Len(s) - 1)))

\* The elements of a sorted list of <<key, element>> pairs
Elements(s) == [k \in 1..Len(s) |-> s[k][2]]

\* The members of interface_common.ResponseCode, in definition order
CommonMembers ==
  [k \in 1..Len(ResponseCodeMembers) |-> [cls |-> CommonCls, value |-> ResponseCodeMembers[k]]]

\* disallowedResponseCodes with every member of the enumeration, whatever
\* is expected
DisallowedResponseCodes_AllMembers(expectedResponseCodes, disallowed) ==
  IF IsNone(disallowed) THEN CommonMembers
  ELSE [k \in 1..Len(Get(disallowed)) |-> EnumOrRaw(CommonCls, Get(disallowed)[k])]

\* disallowedResponseCodes after __post_init__ (lines 158-165): the members
\* not in expectedResponseCodes when no list is given, else the list given
\* with its values of the enumeration made members
DisallowedResponseCodes(expectedResponseCodes, disallowed) ==
  IF IsNone(disallowed)
  THEN SelectSeq(CommonMembers, LAMBDA c : ~In(c, expectedResponseCodes))
  ELSE [k \in 1..Len(Get(disallowed)) |-> EnumOrRaw(CommonCls, Get(disallowed)[k])]

\* ExpectedSpectrumInquiryResponse and its __post_init__.  codes is a list
\* of codes, freq_info / chan_info optional lists of dicts, disallowed an
\* optional list of codes.
ExpectedSpectrumInquiryResponse(requestId, rulesetId, codes, freq_info, chan_info, vendorExtensions, disallowed) ==
  LET toEnum(lst) == [k \in 1..Len(lst) |-> EnumOrRaw(CommonCls, lst[k])]
      expectedResponseCodes == toEnum(codes)
      byLow(lst) == [k \in 1..Len(lst) |->
                       LET info == ExpectedAvailableFrequencyInfo(lst[k])
                       IN <<<<info.frequencyRange.lowFrequency>>, info>>]
      byCfi(lst) == [k \in 1..Len(lst) |->
                       LET info == ExpectedAvailableChannelInfo(lst[k])
                       IN <<info.channelCfi, info>>]
  IN [requestId |-> requestId,
      rulesetId |-> rulesetId,
      expectedResponseCodes |-> expectedResponseCodes,
      disallowedResponseCodes |-> DisallowedResponseCodes(expectedResponseCodes, disallowed),
      expectedFrequencyInfo |->
        IF IsNone(freq_info) THEN None
        ELSE Some(Elements(SortBy(byLow(Get(freq_info))))),
      expectedChannelInfo |->
        IF IsNone(chan_info) THEN None
        ELSE Some(Elements(SortBy(byCfi(Get(chan_info))))),
      vendorExtensions |-> vendorExtensions]

\* Response and its __post_init__ (supplementalInfo is not modelled: None)
Response(responseCode) == [responseCode |-> EnumOrRaw(RespCls, responseCode)]

AvailableFrequencyInfo(low, high, maxPsd) ==
  [frequencyRange |-> FrequencyRange(low, high), maxPsd |-> maxPsd]

AvailableChannelInfo(goc, channelCfi, maxEirp) ==
  [globalOperatingClass |-> goc, channelCfi |-> channelCfi, maxEirp |-> maxEirp]

\* AvailableSpectrumInquiryResponse: response is the dict {"responseCode": code}
AvailableSpectrumInquiryResponse(requestId, rulesetId, code, freq_info, chan_info, expire, vendorExtensions) ==
  [requestId |-> requestId,
   rulesetId |-> rulesetId,
   response |-> Response(code),
   availableFrequencyInfo |-> freq_info,
   availableChannelInfo |-> chan_info,
   availabilityExpireTime |-> expire,
   vendorExtensions |-> vendorExtensions]

\* The two messages: version, the list of responses / masks, vendorExtensions
AvailableSpectrumInquiryResponseMessage(version, responses, vendorExtensions) ==
  [version |-> version,
   availableSpectrumInquiryResponses |-> responses,
   vendorExtensions |-> vendorExtensions]

ExpectedSpectrumInquiryResponseMessage(version, responses, vendorExtensions) ==
  [version |-> version,
   expectedSpectrumInquiryResponses |-> responses,
   vendorExtensions |-> vendorExtensions]

-----------------------------------------------------------------------------
(* sdi_validator_common: the decorator common_sdi_validator, get_as_type    *)
(* and validate_types.  A validator yields [is_valid, raised, log]: what it *)
(* returns, the exception that leaves it ("none" when it returns) and its   *)
(* warnings.  A Python value of any type is a record [type, val]: type is   *)
(* the name of its class; val is a record: of the number of an int or a     *)
(* float, of the rank of a str in the order of strings, of the fields of a  *)
(* dataclass instance, the items of a dict, the elements of a list.         *)

Result(b, log) == [is_valid |-> b, raised |-> "none", log |-> log]

\* Two validations in sequence: the second is not run when the first raised
AndThen(p, q) ==
  IF p.raised # "none" THEN p
  ELSE [is_valid |-> p.is_valid /\ q.is_valid, raised |-> q.raised, log |-> p.log \o q.log]

\* is_valid &= all([validate(x) for x in lst]), given the results
RECURSIVE AllResults(_)
AllResults(results) ==
  IF Len(results) = 0 THEN Result(TRUE, <<>>)
  ELSE AndThen(Head(results), AllResults(Tail(results)))

PyNone == [type |-> "NoneType", val |-> [number |-> 0]]
PyInt(n) == [type |-> "int", val |-> [number |-> n]]
PyFloat(n) == [type |-> "float", val |-> [number |-> n]]
PyStr(n) == [type |-> "str", val |-> [number |-> n]]
PyList(elements) == [type |-> "list", val |-> [elements |-> elements]]
PyDict(items) == [type |-> "dict", val |-> items]
PyObject(cls, fields) == [type |-> cls, val |-> fields]

\* The fields of the dataclasses FrequencyRange and VendorExtension
\* (interface_common.py), in the order of their declaration: no field has a
\* default, so field_def.default is MISSING and never None
__dataclass_fields__(cls) ==
  CASE cls = "FrequencyRange" ->
         <<[name |-> "lowFrequency", type |-> "int", default |-> "MISSING"],
           [name |-> "highFrequency", type |-> "int", default |-> "MISSING"]>>
    [] cls = "VendorExtension" ->
         <<[name |-> "extensionId", type |-> "str", default |-> "MISSING"],
           [name |-> "parameters", type |-> "Any", default |-> "MISSING"]>>

\* The names of the fields of a dataclass
FieldNames(cls) ==
  {__dataclass_fields__(cls)[k].name : k \in 1..Len(__dataclass_fields__(cls))}

\* The constructor of target_type raises TypeError: a field without default is not
\* among the keys, or a key is no field
ConstructorRaises(items, target_type) ==
  DOMAIN items # FieldNames(target_type)

\* SDIValidatorBase.get_as_type: [conv_obj, log], conv_obj PyNone when the
\* conversion is not supported
get_as_type(src_obj, target_type) ==
  IF src_obj.type = "dict"
  THEN IF ConstructorRaises(src_obj.val, target_type)
       THEN [conv_obj |-> PyNone, log |-> <<_warning("converting", 0, 0, 0, 0)>>]
       ELSE [conv_obj |-> PyObject(target_type, src_obj.val), log |-> <<>>]
  ELSE IF src_obj.type = target_type
  THEN [conv_obj |-> src_obj, log |-> <<>>]
  ELSE [conv_obj |-> PyNone, log |-> <<_warning("unsupported type", 0, 0, 0, 0)>>]

\* The body of the loop of validate_types (lines 108-123) for field k of
\* obj, none of whose fields is of a list type
CheckField(obj, field_def, k) ==
  LET field_value == obj.val[field_def.name] IN
  IF field_def.default # "None" /\ field_value.type = "NoneType"
  THEN Result(FALSE, <<>>)
  ELSE IF field_value.type # "NoneType" /\ field_def.type # "Any"
          /\ field_value.type # field_def.type
  THEN Result(FALSE, <<_warning("has non", k, 0, 0, 0)>>)
  ELSE Result(TRUE, <<>>)

\* SDIValidatorBase.validate_types on an instance of a dataclass
validate_types(obj) ==
  LET fields == __dataclass_fields__(obj.type) IN
  AllResults([k \in 1..Len(fields) |-> CheckField(obj, fields[k], k)])

\* a <= b raises TypeError: the operands are not both numbers or both str
Unorderable(a, b) ==
  ~(\/ a.type \in {"int", "float"} /\ b.type \in {"int", "float"}
    \/ a.type = "str" /\ b.type = "str")

\* The wrapped method of validate_frequency_range (lines 139-150)
FrequencyOrder(freq_range) ==
  LET low == freq_range.val["lowFrequency"]
      high == freq_range.val["highFrequency"]
  IN IF Unorderable(high, low)
     THEN Result(FALSE, <<_warning("frequency order TypeError", 0, 0, 0, 0)>>)
     ELSE IF high.val.number <= low.val.number
     THEN Result(FALSE, <<_warning("frequency order", 0, 0, 0, 0)>>)
     ELSE Result(TRUE, <<>>)

\* What the method wrapped by common_sdi_validator for class target_class
\* does with its validation target
specific_logic(target_class, validation_target) ==
  IF target_class = "FrequencyRange" THEN FrequencyOrder(validation_target)
  ELSE Result(TRUE, <<>>)

\* common_sdi_validator(specific_logic), for the validator of target_class,
\* called on src_obj
common_sdi_validator(target_class, src_obj) ==
  LET conv == get_as_type(src_obj, target_class) IN
  IF conv.conv_obj.type # "NoneType"
  THEN LET rest == AndThen(validate_types(conv.conv_obj),
                           specific_logic(target_class, conv.conv_obj))
       IN [rest EXCEPT !.log = conv.log \o rest.log]
  ELSE Result(FALSE, conv.log \o <<_warning("Failed to validate", 0, 0, 0, 0)>>)

\* SDIValidatorBase.validate_vendor_extension
validate_vendor_extension(ext) == common_sdi_validator("VendorExtension", ext)

\* SDIValidatorBase.validate_vendor_extension_list: iterating over what is
\* no list raises TypeError, which is caught
validate_vendor_extension_list(exts) ==
  IF exts.type = "NoneType" THEN Result(TRUE, <<>>)
  ELSE IF exts.type # "list"
  THEN Result(FALSE, <<_warning("vendor extensions TypeError", 0, 0, 0, 0)>>)
  ELSE AllResults([k \in 1..Len(exts.val.elements) |->
                     validate_vendor_extension(exts.val.elements[k])])

-----------------------------------------------------------------------------
(* Validators: sdi_validator_common, response_validator,                   *)
(* response_mask_validator.  A validator yields [is_valid, raised]: raised *)
(* is "none" or the name of the exception that left it.  The objects of    *)
(* the model satisfy their type hints but for vendorExtensions, and no     *)
(* number is NaN or infinite, so validate_types on the other fields and    *)
(* the isfinite / isnan checks pass and are left out.                      *)

Valid(b) == [is_valid |-> b, raised |-> "none"]
Raised(e) == [is_valid |-> FALSE, raised |-> e]

\* is_valid &= all([validate(x) for x in lst]), given the verdicts of
\* validate on the elements: the list comprehension runs validate on every
\* element unless one of them raises
RECURSIVE AllValid(_)
AllValid(verdicts) ==
  IF Len(verdicts) = 0 THEN Valid(TRUE)
  ELSE LET first == Head(verdicts) IN
       IF first.raised # "none" THEN first
       ELSE LET rest == AllValid(Tail(verdicts)) IN
            IF rest.raised # "none" THEN rest
            ELSE Valid(first.is_valid /\ rest.is_valid)

\* is_valid &= ...
AndValid(p, q) ==
  IF p.raised # "none" THEN p
  ELSE IF q.raised # "none" THEN q
  ELSE Valid(p.is_valid /\ q.is_valid)

\* The checks of the field vendorExtensions of a response or a mask, None
\* or a list: validate_types (sdi_validator_common.py lines 113-118) wants
\* instances of VendorExtension, validate_vendor_extension_list valid ones
ValidateVendorExtensions(vendorExtensions) ==
  IF IsNone(vendorExtensions) THEN Valid(TRUE)
  ELSE LET exts == Get(vendorExtensions) IN
       Valid(/\ \A k \in 1..Len(exts) : exts[k].type = "VendorExtension"
             /\ validate_vendor_extension_list(PyList(exts)).is_valid)

\* The strings matching \A[0-9]+\.[0-9]+\Z among the versions of the model
WellFormedVersions == {"1.3", "1.4"}

\* SDIValidatorBase.validate_version
validate_version(version) == Valid(version \in WellFormedVersions)

\* SDIValidatorBase.validate_frequency_range
validate_frequency_range(freq_range) ==
  Valid(~(freq_range.highFrequency <= freq_range.lowFrequency))

\* The strings that end in Z and parse with datetime.fromisoformat among the
\* expire times of the model
WellFormedExpireTimes == {"2030-01-01T00:00:00Z"}

\* InquiryResponseValidator.validate_available_frequency_info
validate_available_frequency_info(info) == validate_frequency_range(info.frequencyRange)

\* InquiryResponseValidator.validate_available_channel_info
validate_available_channel_info(info) ==
  Valid(Len(info.channelCfi) = Len(info.maxEirp))

\* InquiryResponseValidator.validate_available_spectrum_inquiry_response
validate_available_spectrum_inquiry_response(resp) ==
  LET presence ==
        IF get_raw_value(resp.response.responseCode) # Some(0)
        THEN IsNone(resp.availableFrequencyInfo)
             /\ IsNone(resp.availableChannelInfo)
             /\ IsNone(resp.availabilityExpireTime)
        ELSE ~IsNone(resp.availabilityExpireTime)
             /\ ~(IsNone(resp.availableChannelInfo) /\ IsNone(resp.availableFrequencyInfo))
      freq == IF IsNone(resp.availableFrequencyInfo) THEN Valid(TRUE)
              ELSE LET lst == Get(resp.availableFrequencyInfo) IN
                   AllValid([k \in 1..Len(lst) |->
                               validate_available_frequency_info(lst[k])])
      chan == IF IsNone(resp.availableChannelInfo) THEN Valid(TRUE)
              ELSE LET lst == Get(resp.availableChannelInfo) IN
                   AllValid([k \in 1..Len(lst) |->
                               validate_available_channel_info(lst[k])])
      expire == IsNone(resp.availabilityExpireTime)
                \/ Get(resp.availabilityExpireTime) \in WellFormedExpireTimes
  IN AndValid(Valid(presence),
              AndValid(freq, AndValid(chan, AndValid(Valid(expire),
                ValidateVendorExtensions(resp.vendorExtensions)))))

\* Each requestId occurs once: len(ids) == len(list(set(ids)))
UniqueIds(lst) == \A i, j \in 1..Len(lst) : lst[i].requestId = lst[j].requestId => i = j

\* except (TypeError, AttributeError): is_valid = False
CatchAttributeError(v) == IF v.raised = "AttributeError" THEN Valid(FALSE) ELSE v

\* InquiryResponseValidator.validate_available_spectrum_inquiry_response_message
validate_available_spectrum_inquiry_response_message(msg) ==
  LET lst == msg.availableSpectrumInquiryResponses IN
  AndValid(validate_version(msg.version),
           IF Len(lst) < 1 THEN Valid(FALSE)
           ELSE CatchAttributeError(
                  AndValid(AllValid([k \in 1..Len(lst) |->
                                      validate_available_spectrum_inquiry_response(lst[k])]),
                           Valid(UniqueIds(lst)))))

\* The fields of an ExpectedPowerRange that are not None
PowerFields(pow_range) ==
  <<pow_range.upperBound>>
  \o (IF IsNone(pow_range.nominalValue) THEN <<>> ELSE <<Get(pow_range.nominalValue)>>)
  \o <<pow_range.lowerBound>>

\* validate_expected_power_range without the rule lowerBound <= nominalValue
validate_expected_power_range_UpperOnly(pow_range) ==
  Valid((\A k \in 1..Len(PowerFields(pow_range)) : ~isnan(PowerFields(pow_range)[k]))
        /\ ~Greater(pow_range.lowerBound, pow_range.upperBound)
        /\ (IsNone(pow_range.nominalValue)
            \/ ~Greater(Get(pow_range.nominalValue), pow_range.upperBound)))

\* ResponseMaskValidator.validate_expected_power_range
validate_expected_power_range(pow_range) ==
  Valid((\A k \in 1..Len(PowerFields(pow_range)) : ~isnan(PowerFields(pow_range)[k]))
        /\ ~Greater(pow_range.lowerBound, pow_range.upperBound)
        /\ (IsNone(pow_range.nominalValue)
            \/ (~Greater(Get(pow_range.nominalValue), pow_range.upperBound)
                /\ ~Greater(pow_range.lowerBound, Get(pow_range.nominalValue)))))

\* ResponseMaskValidator.validate_expected_frequency_info
validate_expected_frequency_info(info) ==
  AndValid(validate_frequency_range(info.frequencyRange),
           validate_expected_power_range(info.maxPsd))

\* ResponseMaskValidator.validate_expected_channel_info
validate_expected_channel_info(info) ==
  LET mock_eirp == [k \in 1..Len(info.maxEirp) |-> 0]
      mock_available_info ==
        AvailableChannelInfo(info.globalOperatingClass, info.channelCfi, mock_eirp)
      no_duplicates ==
        Len(info.channelCfi) = Cardinality(SeqToSet(info.channelCfi))
  IN AndValid(validate_available_channel_info(mock_available_info),
     AndValid(AllValid([k \in 1..Len(info.maxEirp) |->
                          validate_expected_power_range(info.maxEirp[k])]),
              Valid(no_duplicates)))

\* The names bound in module expected_inquiry_response (afc_exp): its imports
\* (lines 16-22) and its classes
ExpectedInquiryResponseNames ==
  {"dataclass", "suppress", "attrgetter", "Union", "isfinite",
   "FrequencyRange", "ResponseCode", "VendorExtension", "init_from_dicts",
   "ExpectedPowerRange", "ExpectedAvailableFrequencyInfo",
   "ExpectedAvailableChannelInfo", "ExpectedSpectrumInquiryResponse",
   "ExpectedSpectrumInquiryResponseMessage", "main"}

\* available_spectrum_inquiry_response.ResponseCode.get_raw_value
afc_resp_get_raw_value(code) ==
  IF code.cls = "int" THEN Some(code.value)
  ELSE IF code.cls = RespCls THEN Some(code.value)
  ELSE None

\* The response code rules of validate_expected_spectrum_inquiry_response
\* (lines 180-214).  The expression afc_exp.afc_resp is evaluated for the
\* first code of a non-empty list; only TypeError is caught.
ValidateExpectedResponseCodes(exp) ==
  IF Len(exp.expectedResponseCodes) < 1 THEN Valid(FALSE)
  ELSE IF "afc_resp" \notin ExpectedInquiryResponseNames THEN Raised("AttributeError")
  ELSE LET codes == exp.expectedResponseCodes
           all_raw == \A i \in 1..Len(codes) : afc_resp_get_raw_value(codes[i]) # None
           success == \E i \in 1..Len(codes) : afc_resp_get_raw_value(codes[i]) = Some(0)
       IN Valid(all_raw
                /\ IF success
                   THEN ~(Len(codes) > 1)
                        /\ ~(IsNone(exp.expectedChannelInfo)
                             /\ IsNone(exp.expectedFrequencyInfo))
                   ELSE IsNone(exp.expectedFrequencyInfo)
                        /\ IsNone(exp.expectedChannelInfo))

\* No two expected frequency infos overlap (lines 247-259)
NoOverlap(infos) ==
  \A i, j \in 1..Len(infos) :
    i < j => ~overlaps(infos[i].frequencyRange, infos[j].frequencyRange)

\* The availability rules of validate_expected_spectrum_inquiry_response
\* (lines 216-259): the frequency rules are nested in the channel rules
ValidateExpectedAvailability(exp) ==
  IF ~IsNone(exp.expectedChannelInfo)
  THEN LET chan == Get(exp.expectedChannelInfo)
           all_gocs == [k \in 1..Len(chan) |-> chan[k].globalOperatingClass]
           gocs == Valid(Len(all_gocs) = Cardinality(SeqToSet(all_gocs)))
           freq == IF ~IsNone(exp.expectedFrequencyInfo)
                   THEN AndValid((LET lst == Get(exp.expectedFrequencyInfo) IN
                                  AllValid([k \in 1..Len(lst) |->
                                              validate_expected_frequency_info(lst[k])])),
                                 Valid(NoOverlap(Get(exp.expectedFrequencyInfo))))
                   ELSE Valid(TRUE)
       IN AndValid(AllValid([k \in 1..Len(chan) |-> validate_expected_channel_info(chan[k])]),
                   AndValid(gocs, freq))
  ELSE Valid(TRUE)

\* ResponseMaskValidator.validate_expected_spectrum_inquiry_response
validate_expected_spectrum_inquiry_response(exp) ==
  AndValid(ValidateVendorExtensions(exp.vendorExtensions),
           AndValid(ValidateExpectedResponseCodes(exp), ValidateExpectedAvailability(exp)))

\* ResponseMaskValidator.validate_expected_spectrum_inquiry_response_message
validate_expected_spectrum_inquiry_response_message(exp) ==
  LET lst == exp.expectedSpectrumInquiryResponses IN
  AndValid(validate_version(exp.version),
           IF Len(lst) < 1 THEN Valid(FALSE)
           ELSE CatchAttributeError(
                  AndValid(AllValid([k \in 1..Len(lst) |->
                                      validate_expected_spectrum_inquiry_response(lst[k])]),
                           Valid(UniqueIds(lst)))))

-----------------------------------------------------------------------------
(* response_mask_runner.ResponseMaskRunner.run_test_response: comparison   *)

\* A part of the comparison yields [ok, log, raised]: ok is the conjunction
\* it contributes to received_expected, raised tells that it ended in
\* raise ValueError.
Part(ok, log) == [ok |-> ok, log |-> log, raised |-> FALSE]

\* Two parts in sequence: the second is not run when the first raised
Then(p, q) ==
  IF p.raised THEN p
  ELSE [ok |-> p.ok /\ q.ok, log |-> p.log \o q.log, raised |-> q.raised]

\* requestId matches (lines 81-87)
CheckRequestId(exp, recv) ==
  IF exp.requestId # recv.requestId
  THEN Part(FALSE, <<_error("requestId", 0, 0, 0, 0)>>)
  ELSE Part(TRUE, <<_info("requestId", 0, 0, 0, 0)>>)

\* rulesetId matches (lines 89-95)
CheckRulesetId(exp, recv) ==
  IF exp.rulesetId # recv.rulesetId
  THEN Part(FALSE, <<_error("rulesetId", 0, 0, 0, 0)>>)
  ELSE Part(TRUE, <<_info("rulesetId", 0, 0, 0, 0)>>)

\* response.responseCode is not disallowed (lines 97-108)
CheckResponseCode(exp, recv) ==
  LET code == recv.response.responseCode IN
  IF ~In(code, exp.expectedResponseCodes)
  THEN IF In(code, exp.disallowedResponseCodes)
       THEN Part(FALSE, <<_error("responseCode", 0, 0, code.value, 0)>>)
       ELSE Part(TRUE, <<_warning("responseCode", 0, 0, code.value, 0)>>)
  ELSE Part(TRUE, <<_info("responseCode", 0, 0, code.value, 0)>>)

\* The for loop over the mask at one cursor position (lines 120-141), from
\* mask entry i on: covering is the index of the entry the loop breaks at
\* (0: the loop ran to its else clause)
RECURSIVE ScanMask(_, _, _, _, _)
ScanMask(mask, i, curr_freq, low_disallow_freq, high_disallow_freq) ==
  IF i > Len(mask)
  THEN [covering |-> 0, low_disallow_freq |-> low_disallow_freq,
        high_disallow_freq |-> high_disallow_freq]
  ELSE LET fr == mask[i].frequencyRange IN
       IF fr.highFrequency <= curr_freq
       THEN ScanMask(mask, i + 1, curr_freq,
                     Max(low_disallow_freq, fr.highFrequency), high_disallow_freq)
       ELSE IF fr.lowFrequency > curr_freq
       THEN ScanMask(mask, i + 1, curr_freq,
                     low_disallow_freq, Min(high_disallow_freq, fr.lowFrequency))
       ELSE [covering |-> i, low_disallow_freq |-> low_disallow_freq,
             high_disallow_freq |-> high_disallow_freq]

\* The cursor moved one frequency too far past a disallowed sub-range
NextCursor_PastDisallowed(mask, scan) ==
  IF scan.covering # 0
  THEN mask[scan.covering].frequencyRange.highFrequency
  ELSE scan.high_disallow_freq + 1

\* The cursor left where it cannot pass the disallowed sub-range
NextCursor_Stays(mask, scan) ==
  IF scan.covering # 0
  THEN mask[scan.covering].frequencyRange.highFrequency
  ELSE scan.low_disallow_freq

\* The cursor after one iteration of the while loop (lines 140, 146)
NextCursor(mask, scan) ==
  IF scan.covering # 0
  THEN mask[scan.covering].frequencyRange.highFrequency
  ELSE scan.high_disallow_freq

\* The while loop over one received frequency info (lines 118-146), item r
\* of the received list, from cursor curr_freq on
RECURSIVE Sweep(_, _, _, _)
Sweep(mask, recv_freq_info, r, curr_freq) ==
  LET range == recv_freq_info.frequencyRange IN
  IF ~(curr_freq < range.highFrequency) THEN Part(TRUE, <<>>)
  ELSE
    LET scan == ScanMask(mask, 1, curr_freq, range.lowFrequency, range.highFrequency)
        rest == Sweep(mask, recv_freq_info, r, NextCursor(mask, scan))
    IN IF scan.covering # 0
       THEN LET mask_info == mask[scan.covering]
                high_end_freq == Min(mask_info.frequencyRange.highFrequency,
                                     range.highFrequency)
            IN IF ~in_range(mask_info.maxPsd, recv_freq_info.maxPsd)
               THEN Then(Part(FALSE, <<_error("psd", r, scan.covering,
                                              curr_freq, high_end_freq)>>), rest)
               ELSE Then(Part(TRUE, <<_info("psd", r, scan.covering,
                                            curr_freq, high_end_freq)>>), rest)
       ELSE Then(Part(FALSE, <<_error("disallowed", r, 0, curr_freq,
                                      scan.high_disallow_freq)>>), rest)

\* The for loop over received.availableFrequencyInfo (line 117), from item r
RECURSIVE SweepAll(_, _, _)
SweepAll(mask, infos, r) ==
  IF r > Len(infos) THEN Part(TRUE, <<>>)
  ELSE Then(Sweep(mask, infos[r], r, infos[r].frequencyRange.lowFrequency),
            SweepAll(mask, infos, r + 1))

\* Frequency range checks that let a basis the mask does not specify pass
CheckFrequencyInfo_AnyBasis(exp, recv) ==
  IF ~IsNone(recv.availableFrequencyInfo) /\ ~IsNone(exp.expectedFrequencyInfo)
  THEN SweepAll(Get(exp.expectedFrequencyInfo), Get(recv.availableFrequencyInfo), 1)
  ELSE Part(TRUE, <<>>)

\* Frequency range checks (lines 110-146)
CheckFrequencyInfo(exp, recv) ==
  IF ~IsNone(recv.availableFrequencyInfo)
  THEN IF IsNone(exp.expectedFrequencyInfo)
       THEN Part(FALSE, <<_error("frequency basis", 0, 0, 0, 0)>>)
       ELSE SweepAll(Get(exp.expectedFrequencyInfo), Get(recv.availableFrequencyInfo), 1)
  ELSE Part(TRUE, <<>>)

\* zip(a, b)
Zip(a, b) == [k \in 1..Min(Len(a), Len(b)) |-> <<a[k], b[k]>>]

\* The mask's entries for a CFI, and the check of the EIRP against the one
\* entry (lines 180-210)
MatchingExpectedInfo(matching_expected_class, recv_cfi) ==
  SelectSeq(Zip(matching_expected_class.channelCfi, matching_expected_class.maxEirp),
            LAMBDA info : info[1] = recv_cfi)

\* The check of one pair that lets a CFI the mask does not list pass
CheckPair_AnyCfi(matching_expected_class, c, recv_cfi, recv_eirp) ==
  LET matching_expected_info == MatchingExpectedInfo(matching_expected_class, recv_cfi)
  IN IF Len(matching_expected_info) = 0
     THEN Part(TRUE, <<_info("cfi", c, 0, recv_cfi, recv_eirp)>>)
     ELSE IF ~in_range(matching_expected_info[1][2], recv_eirp)
     THEN Part(FALSE, <<_error("eirp", c, 0, recv_cfi, recv_eirp)>>)
     ELSE Part(TRUE, <<_info("eirp", c, 0, recv_cfi, recv_eirp)>>)

\* One iteration of the loop over zip(channelCfi, maxEirp) (lines 180-210);
\* c is the index of the received class
CheckPair(matching_expected_class, c, recv_cfi, recv_eirp) ==
  LET matching_expected_info == MatchingExpectedInfo(matching_expected_class, recv_cfi)
  IN IF Len(matching_expected_info) = 0
     THEN Part(FALSE, <<_error("cfi", c, 0, recv_cfi, recv_eirp)>>)
     ELSE IF Len(matching_expected_info) = 1
     THEN LET eirp == matching_expected_info[1][2] IN
          IF ~in_range(eirp, recv_eirp)
          THEN Part(FALSE, <<_error("eirp", c, 0, recv_cfi, recv_eirp)>>)
          ELSE Part(TRUE, <<_info("eirp", c, 0, recv_cfi, recv_eirp)>>)
     ELSE [ok |-> FALSE, log |-> <<_fatal("duplicate cfi", c, 0, recv_cfi, 0)>>,
           raised |-> TRUE]

\* Channel checks of one received class against its mask class (lines
\* 178-210), from pair k of zip(channelCfi, maxEirp) on
RECURSIVE CheckChannels(_, _, _, _)
CheckChannels(matching_expected_class, recv_class_info, c, k) ==
  LET pairs == Zip(recv_class_info.channelCfi, recv_class_info.maxEirp) IN
  IF k > Len(pairs) THEN Part(TRUE, <<>>)
  ELSE Then(CheckPair(matching_expected_class, c, pairs[k][1], pairs[k][2]),
            CheckChannels(matching_expected_class, recv_class_info, c, k + 1))

\* Any non-placeholder mask objects with same GOC (lines 156-159)
MatchingExpectedClass(mask, recv_class_info) ==
  SelectSeq(mask, LAMBDA exp :
    exp.globalOperatingClass = recv_class_info.globalOperatingClass
    /\ (Len(exp.channelCfi) # 0 \/ Len(exp.maxEirp) # 0))

\* One received class, accepted when the mask has no class for it
CheckClass_AcceptsUnmatched(mask, recv_class_info, c) ==
  LET matching_expected_class == MatchingExpectedClass(mask, recv_class_info)
      goc == recv_class_info.globalOperatingClass
  IN IF Len(matching_expected_class) = 0
     THEN Part(TRUE, <<>>)
     ELSE IF Len(matching_expected_class) = 1
     THEN CheckChannels(matching_expected_class[1], recv_class_info, c, 1)
     ELSE [ok |-> FALSE, log |-> <<_fatal("duplicate goc", c, 0, goc, 0)>>,
           raised |-> TRUE]

\* One received class, checked against the first of the mask's classes for it
CheckClass_FirstMatch(mask, recv_class_info, c) ==
  LET matching_expected_class == MatchingExpectedClass(mask, recv_class_info)
      goc == recv_class_info.globalOperatingClass
  IN IF Len(matching_expected_class) = 0
     THEN IF Len(recv_class_info.channelCfi) # 0 \/ Len(recv_class_info.maxEirp) # 0
          THEN Part(FALSE, <<_error("goc", c, 0, goc, 0)>>)
          ELSE Part(TRUE, <<>>)
     ELSE CheckChannels(matching_expected_class[1], recv_class_info, c, 1)

\* One received class (lines 155-210)
CheckClass(mask, recv_class_info, c) ==
  LET matching_expected_class == MatchingExpectedClass(mask, recv_class_info)
      goc == recv_class_info.globalOperatingClass
  IN IF Len(matching_expected_class) = 0
     THEN IF Len(recv_class_info.channelCfi) # 0 \/ Len(recv_class_info.maxEirp) # 0
          THEN Part(FALSE, <<_error("goc", c, 0, goc, 0)>>)
          ELSE Part(TRUE, <<>>)
     ELSE IF Len(matching_expected_class) = 1
     THEN CheckChannels(matching_expected_class[1], recv_class_info, c, 1)
     ELSE [ok |-> FALSE, log |-> <<_fatal("duplicate goc", c, 0, goc, 0)>>,
           raised |-> TRUE]

\* The for loop over received.availableChannelInfo (line 154), from class c
RECURSIVE CheckClasses(_, _, _)
CheckClasses(mask, infos, c) ==
  IF c > Len(infos) THEN Part(TRUE, <<>>)
  ELSE Then(CheckClass(mask, infos[c], c), CheckClasses(mask, infos, c + 1))

\* Channel checks (lines 148-210)
CheckChannelInfo(exp, recv) ==
  IF ~IsNone(recv.availableChannelInfo)
  THEN IF IsNone(exp.expectedChannelInfo)
       THEN Part(FALSE, <<_error("channel basis", 0, 0, 0, 0)>>)
       ELSE CheckClasses(Get(exp.expectedChannelInfo), Get(recv.availableChannelInfo), 1)
  ELSE Part(TRUE, <<>>)

\* VendorExtensions of the response counted as a mismatch
CheckVendorExtensions_Compared(exp, recv) ==
  Part(IsNone(recv.vendorExtensions),
       (IF ~IsNone(recv.vendorExtensions)
        THEN <<_warning("received vendorExtensions", 0, 0, 0, 0)>> ELSE <<>>)
       \o (IF ~IsNone(exp.vendorExtensions)
           THEN <<_warning("expected vendorExtensions", 0, 0, 0, 0)>> ELSE <<>>))

\* Ignore VendorExtensions (lines 212-218)
CheckVendorExtensions(exp, recv) ==
  Part(TRUE,
       (IF ~IsNone(recv.vendorExtensions)
        THEN <<_warning("received vendorExtensions", 0, 0, 0, 0)>> ELSE <<>>)
       \o (IF ~IsNone(exp.vendorExtensions)
           THEN <<_warning("expected vendorExtensions", 0, 0, 0, 0)>> ELSE <<>>))

\* Lines 80-220 of run_test_response
Compare(exp, recv) ==
  Then(CheckRequestId(exp, recv),
  Then(CheckRulesetId(exp, recv),
  Then(CheckResponseCode(exp, recv),
  Then(CheckFrequencyInfo(exp, recv),
  Then(CheckChannelInfo(exp, recv),
       CheckVendorExtensions(exp, recv))))))

-----------------------------------------------------------------------------
(* response_mask_runner.ResponseMaskRunner: the two entry points           *)

Outcome(result, phase, log) == [result |-> result, phase |-> phase, log |-> log]

\* Validate objects (if requested): lines 65-78 and 248-257.  recv and mask
\* are the two validators' verdicts; yields [raised, log], raised "none"
\* when the comparison goes on.
ValidateObjects(recv, mask) ==
  LET first == IF ~recv.is_valid
               THEN <<_warning("received validation", 0, 0, 0, 0)>>
               ELSE <<_info("received validation", 0, 0, 0, 0)>>
  IN IF recv.raised # "none" THEN [raised |-> recv.raised, log |-> <<>>]
     ELSE IF mask.raised # "none" THEN [raised |-> mask.raised, log |-> first]
     ELSE IF ~mask.is_valid
     THEN [raised |-> "ValueError",
           log |-> first \o <<_fatal("mask validation", 0, 0, 0, 0)>>]
     ELSE [raised |-> "none",
           log |-> first \o <<_info("mask validation", 0, 0, 0, 0)>>]

\* What a comparison that yields part c returns or raises
Finish(prefix, c) ==
  Outcome(IF c.raised THEN "ValueError" ELSE IF c.ok THEN "True" ELSE "False",
          "compare", prefix \o c.log)

\* ResponseMaskRunner.run_test_response
run_test_response(exp, recv, validate) ==
  LET v == IF validate
           THEN ValidateObjects(validate_available_spectrum_inquiry_response(recv),
                                validate_expected_spectrum_inquiry_response(exp))
           ELSE [raised |-> "none", log |-> <<>>]
  IN IF v.raised # "none" THEN Outcome(v.raised, "validate", v.log)
     ELSE Finish(v.log, Compare(exp, recv))

\* sum(x.requestId == id for x in lst)
NumWithId(lst, id) == Cardinality({i \in 1..Len(lst) : lst[i].requestId = id})

\* Each expected response satisfies the corresponding response mask (lines
\* 284-293): the received responses from item r on that carry sub_exp's id
RECURSIVE CheckMatching(_, _, _)
CheckMatching(sub_exp, responses, r) ==
  IF r > Len(responses) THEN Part(TRUE, <<>>)
  ELSE IF responses[r].requestId = sub_exp.requestId
  THEN LET sub == run_test_response(sub_exp, responses[r], FALSE)
           rest == CheckMatching(sub_exp, responses, r + 1)
       IN IF sub.result = "ValueError"
          THEN [ok |-> FALSE, log |-> sub.log, raised |-> TRUE]
          ELSE IF sub.result = "False"
          THEN Then(Part(FALSE, sub.log \o <<_error("response mask", r, 0, 0, 0)>>), rest)
          ELSE Then(Part(TRUE, sub.log \o <<_info("response mask", r, 0, 0, 0)>>), rest)
  ELSE CheckMatching(sub_exp, responses, r + 1)

\* Response checks (lines 275-293), from expected response e on
RECURSIVE CheckExpected(_, _, _)
CheckExpected(masks, responses, e) ==
  IF e > Len(masks) THEN Part(TRUE, <<>>)
  ELSE LET num_with_id == NumWithId(responses, masks[e].requestId)
           rest == CheckExpected(masks, responses, e + 1)
       IN IF num_with_id # 1
          THEN Then(Part(FALSE, <<_error("response count for id", 0, e,
                                         num_with_id, 0)>>), rest)
          ELSE Then(CheckMatching(masks[e], responses, 1), rest)

\* No responses with an unexpected requestId (lines 295-301), from item r on
RECURSIVE CheckUnexpected(_, _, _)
CheckUnexpected(masks, responses, r) ==
  IF r > Len(responses) THEN Part(TRUE, <<>>)
  ELSE Then(IF NumWithId(masks, responses[r].requestId) = 0
            THEN Part(FALSE, <<_error("unexpected id", r, 0, 0, 0)>>)
            ELSE Part(TRUE, <<>>),
            CheckUnexpected(masks, responses, r + 1))

\* version matches (lines 260-265)
CheckVersion(exp, recv) ==
  IF recv.version # exp.version
  THEN Part(FALSE, <<_error("version", 0, 0, 0, 0)>>)
  ELSE Part(TRUE, <<>>)

\* The number of responses left unchecked
CheckCount_AnyNumber(exp, recv) == Part(TRUE, <<>>)

\* Number of responses within message matches (lines 267-273)
CheckCount(exp, recv) ==
  IF Len(recv.availableSpectrumInquiryResponses)
       # Len(exp.expectedSpectrumInquiryResponses)
  THEN Part(FALSE, <<_error("number of responses", 0, 0,
                            Len(recv.availableSpectrumInquiryResponses),
                            Len(exp.expectedSpectrumInquiryResponses))>>)
  ELSE Part(TRUE, <<>>)

\* Lines 259-309 of run_test_response_message
CompareMessage(exp, recv) ==
  Then(CheckVersion(exp, recv),
  Then(CheckCount(exp, recv),
  Then(CheckExpected(exp.expectedSpectrumInquiryResponses,
                     recv.availableSpectrumInquiryResponses, 1),
  Then(CheckUnexpected(exp.expectedSpectrumInquiryResponses,
                       recv.availableSpectrumInquiryResponses, 1),
       CheckVendorExtensions(exp, recv)))))

\* ResponseMaskRunner.run_test_response_message
run_test_response_message(exp, recv, validate) ==
  LET v == IF validate
           THEN ValidateObjects(
                  validate_available_spectrum_inquiry_response_message(recv),
                  validate_expected_spectrum_inquiry_response_message(exp))
           ELSE [raised |-> "none", log |-> <<>>]
  IN IF v.raised # "none" THEN Outcome(v.raised, "validate", v.log)
     ELSE Finish(v.log, CompareMessage(exp, recv))

-----------------------------------------------------------------------------
(* Inputs *)

\* The dicts the entities are built from
PowerDict(upper, lower) ==
  [upperBound |-> upper, nominalValue |-> None, lowerBound |-> lower]

FreqDict(low, high, maxPsd) ==
  [frequencyRange |-> FrequencyRange(low, high), maxPsd |-> maxPsd]

ChanDict(goc, channelCfi, maxEirp) ==
  [globalOperatingClass |-> goc, channelCfi |-> channelCfi, maxEirp |-> maxEirp]

\* Lists over S of at most two elements
Lists2(S) == {<<>>} \cup {<<x>> : x \in S} \cup {<<x, y>> : x \in S, y \in S}

NoOutcome == Outcome("none", "none", <<>>)

\* No frequency sweep is under way
NoSweep == recv_item = 0 /\ cursor = 0
\* No AfcConnectionHandler is constructed
NoConnection == base_url = "" /\ auth_info = "None" /\ _resp = None /\ sent = 0
\* main is not running
NoTests ==
  tests = <<>> /\ test_name = 0 /\ _named_results = <<>> /\ _count_results = <<>>

\* The state before a call of entry point c
Ready(c, exp, recv, validate) ==
  /\ call = c
  /\ expected = exp
  /\ received = recv
  /\ validate_objects = validate
  /\ pc = "ready"
  /\ outcome = NoOutcome
  /\ _enforce_strict_polygon = FALSE
  /\ _geopy_available = FALSE
  /\ NoSweep /\ NoConnection /\ NoTests

\* Masks and responses for the whole of run_test_response: the channel mask
\* of the scenarios (GOC 131, CFI 1, 20 <= x <= 30), the same with a second
\* entry for GOC 131, one frequency entry; the vendor code 999 is no member
\* of ResponseCode
GenMasks ==
  {ExpectedSpectrumInquiryResponse("A", "R", codes, freq, chan, None, disallowed) :
     codes \in {<<>>, <<IntCode(-1)>>, <<IntCode(0)>>, <<IntCode(999)>>},
     disallowed \in {None, Some(<<IntCode(999)>>)},
     freq \in {None, Some(<<FreqDict(0, 2, PowerDict(2, Some(1)))>>)},
     chan \in {None,
               Some(<<ChanDict(131, <<1>>, <<PowerDict(30, Some(20))>>)>>),
               Some(<<ChanDict(131, <<1>>, <<PowerDict(30, Some(20))>>),
                      ChanDict(131, <<2>>, <<PowerDict(30, None)>>)>>)}}

GenResponses ==
  {AvailableSpectrumInquiryResponse(requestId, rulesetId, IntCode(code), freq, chan,
                                    expire, None) :
     requestId \in {"A", "B"},
     rulesetId \in {"R", "X"},
     code \in {-1, 0, 999},
     freq \in {None, Some(<<AvailableFrequencyInfo(0, 1, 1)>>),
               Some(<<AvailableFrequencyInfo(0, 1, 3)>>)},
     chan \in {None, Some(<<AvailableChannelInfo(131, <<1>>, <<35>>)>>)},
     expire \in {None, Some("2030-01-01T00:00:00Z")}}

\* Masks and responses of the messages
MsgMasks ==
  {ExpectedSpectrumInquiryResponse(requestId, "R", <<IntCode(0)>>, None, chan, None, None) :
     requestId \in {"A", "B"},
     chan \in {Some(<<ChanDict(131, <<1>>, <<PowerDict(30, Some(20))>>)>>),
               Some(<<ChanDict(131, <<1>>, <<PowerDict(30, Some(20))>>),
                      ChanDict(131, <<2>>, <<PowerDict(30, None)>>)>>)}}

MsgResponses ==
  {AvailableSpectrumInquiryResponse(requestId, "R", IntCode(0), None,
       Some(<<AvailableChannelInfo(131, <<1>>, <<eirp>>)>>),
       Some("2030-01-01T00:00:00Z"), None) :
     requestId \in {"A", "B", "C"}, eirp \in {25, 35}}

GenExpectedMessages ==
  {ExpectedSpectrumInquiryResponseMessage("1.3", masks, None) : masks \in Lists2(MsgMasks)}

GenReceivedMessages ==
  {AvailableSpectrumInquiryResponseMessage(version, responses, None) :
     version \in {"1.3", "1.4", "one"}, responses \in Lists2(MsgResponses)}

-----------------------------------------------------------------------------
(* Specifications *)

\* A call of run_test_response
RunTestResponse ==
  /\ pc = "ready"
  /\ call = "run_test_response"
  /\ outcome' = run_test_response(expected, received, validate_objects)
  /\ pc' = "done"
  /\ UNCHANGED <<call, expected, received, validate_objects,
               _enforce_strict_polygon, _geopy_available,
               sweep_vars, afc_vars, main_vars>>

\* A call of run_test_response_message
RunTestResponseMessage ==
  /\ pc = "ready"
  /\ call = "run_test_response_message"
  /\ outcome' = run_test_response_message(expected, received, validate_objects)
  /\ pc' = "done"
  /\ UNCHANGED <<call, expected, received, validate_objects,
               _enforce_strict_polygon, _geopy_available,
               sweep_vars, afc_vars, main_vars>>

Init ==
  \/ \E exp \in GenMasks, recv \in GenResponses, validate \in BOOLEAN :
       Ready("run_test_response", exp, recv, validate)
  \/ \E exp \in GenExpectedMessages, recv \in GenReceivedMessages, validate \in BOOLEAN :
       Ready("run_test_response_message", exp, recv, validate)

Next == RunTestResponse \/ RunTestResponseMessage

Spec == Init /\ [][Next]_vars

\* The frequency sweep alone: the mask is any list of at most MaxExpFreq
\* entries over the ranges of 0..MaxFreq, as __post_init__ sorts it; the
\* response any list of at most MaxRecvFreq such ranges.  The mask allows a
\* PSD of at most 1, the response claims 1 or 2.
Ranges == {<<low, high>> \in (0..MaxFreq) \X (0..MaxFreq) : low < high}

FreqMasks ==
  {ExpectedSpectrumInquiryResponse("A", "R", <<IntCode(0)>>, Some(freq), None, None, None) :
     freq \in SeqsUpTo({FreqDict(r[1], r[2], PowerDict(1, None)) : r \in Ranges},
                       MaxExpFreq)}

FreqResponses ==
  {AvailableSpectrumInquiryResponse("A", "R", IntCode(0), Some(freq), None,
                                    Some("2030-01-01T00:00:00Z"), None) :
     freq \in SeqsUpTo({AvailableFrequencyInfo(r[1], r[2], psd) :
                          r \in Ranges, psd \in {1, 2}}, MaxRecvFreq)}

InitFreq ==
  \E exp \in FreqMasks, recv \in FreqResponses :
    Ready("run_test_response", exp, recv, FALSE)

NextResponse == RunTestResponse

SpecFreq == InitFreq /\ [][NextResponse]_vars

\* The PSD comparison alone: one received range with a PSD of 0..MaxPower+1
\* against a mask entry with any bounds in 0..MaxPower, alone or next to a
\* second entry.
PowerDicts ==
  {PowerDict(upper, lower) :
     upper \in 0..MaxPower, lower \in {None} \cup {Some(l) : l \in 0..MaxPower}}

PsdMasks ==
  {ExpectedSpectrumInquiryResponse("A", "R", <<IntCode(0)>>, Some(freq), None, None, None) :
     freq \in {<<FreqDict(r[1], r[2], p)>> : r \in Ranges, p \in PowerDicts}
              \cup {<<FreqDict(r[1], r[2], p), FreqDict(q[1], q[2], PowerDict(MaxPower, None))>> :
                      r \in Ranges, q \in Ranges, p \in PowerDicts}}

PsdResponses ==
  {AvailableSpectrumInquiryResponse("A", "R", IntCode(0),
       Some(<<AvailableFrequencyInfo(r[1], r[2], psd)>>), None,
       Some("2030-01-01T00:00:00Z"), None) :
     r \in Ranges, psd \in 0..(MaxPower + 1)}

InitPsd ==
  \E exp \in PsdMasks, recv \in PsdResponses :
    Ready("run_test_response", exp, recv, FALSE)

NextPsd == RunTestResponse

SpecPsd == InitPsd /\ [][NextPsd]_vars

\* The channel checks alone: classes 131 and 132, CFIs 1..MaxCfi, the range
\* 20 <= x <= 30 of the scenarios for every expected CFI, an EIRP of 25 or
\* 35 for every received one.  An expected class lists at most two CFIs (a
\* CFI may be listed twice); a mask holds at most two classes (a class may
\* be held twice, a class may be a placeholder with empty lists).
Cfis == 1..MaxCfi

ExpectedClasses ==
  {ChanDict(goc, cfi, [k \in 1..Len(cfi) |-> PowerDict(30, Some(20))]) :
     goc \in {131, 132}, cfi \in Lists2(Cfis)}

ChanMasks ==
  {ExpectedSpectrumInquiryResponse("A", "R", <<IntCode(0)>>, None, Some(chan), None, None) :
     chan \in Lists2(ExpectedClasses)}

\* A received class of one pair, and one whose two lists are of any length
PairClasses ==
  {AvailableChannelInfo(goc, <<cfi>>, <<eirp>>) :
     goc \in {131, 132}, cfi \in Cfis, eirp \in {25, 35}}

AnyClasses ==
  {AvailableChannelInfo(goc, cfi, eirp) :
     goc \in {131, 132}, cfi \in Lists2(Cfis), eirp \in Lists2({25, 35})}

ChanResponses ==
  {AvailableSpectrumInquiryResponse("A", "R", IntCode(0), None, Some(chan),
                                    Some("2030-01-01T00:00:00Z"), None) :
     chan \in {<<>>} \cup {<<x>> : x \in AnyClasses}
              \cup {<<x, y>> : x \in PairClasses, y \in PairClasses}}

InitChan ==
  \E exp \in ChanMasks, recv \in ChanResponses :
    Ready("run_test_response", exp, recv, FALSE)

NextChan == RunTestResponse

SpecChan == InitChan /\ [][NextChan]_vars

\* A finished call of either entry point
Done(c) == pc = "done" /\ call = c

-----------------------------------------------------------------------------
(* Calls of the validators.  The argument of a call is held in received    *)
(* (a response, a request, a message of them) or in expected (a mask, a    *)
(* message of masks); outcome holds the is_valid returned, or the          *)
(* exception, and the warnings logged.                                     *)

\* What a validator with verdict v and warnings log returns or raises
ValidatorOutcome(v, log) ==
  Outcome(IF v.raised # "none" THEN v.raised ELSE IF v.is_valid THEN "True" ELSE "False",
          "validate", log)

\* all(validate(x) for x in lst), given the verdicts of validate on the
\* elements: the number of elements the generator runs validate on, which
\* is up to and including the first invalid one
GeneratorVisited(verdicts) ==
  LET bad == {k \in 1..Len(verdicts) : ~verdicts[k].is_valid}
  IN IF bad = {} THEN Len(verdicts)
     ELSE CHOOSE k \in bad : \A j \in bad : k <= j

\* The warnings of validate_available_frequency_info on the entries of
\* availableFrequencyInfo (response_validator.py lines 230-236): all() is
\* given a generator
FrequencyInfoLog(infos) ==
  LET verdicts == [k \in 1..Len(infos) |-> validate_available_frequency_info(infos[k])]
      visited == [k \in 1..GeneratorVisited(verdicts) |->
                    _warning("frequencyRange", k, 0, infos[k].frequencyRange.lowFrequency,
                             infos[k].frequencyRange.highFrequency)]
  IN SelectSeq(visited, LAMBDA e : ~verdicts[e.item].is_valid)

\* The warnings of validate_available_channel_info on the entries of
\* availableChannelInfo (lines 237-243): all() is given a list
ChannelInfoLog(infos) ==
  LET verdicts == [k \in 1..Len(infos) |-> validate_available_channel_info(infos[k])]
      visited == [k \in 1..Len(infos) |->
                    _warning("channel lengths", k, 0, Len(infos[k].channelCfi),
                             Len(infos[k].maxEirp))]
  IN SelectSeq(visited, LAMBDA e : ~verdicts[e.item].is_valid)

\* The warnings of the presence rules (lines 201-227)
PresenceLog(resp) ==
  IF get_raw_value(resp.response.responseCode) # Some(0)
  THEN (IF ~IsNone(resp.availableFrequencyInfo)
        THEN <<_warning("not SUCCESS but provided", 0, 0, 1, 0)>> ELSE <<>>)
       \o (IF ~IsNone(resp.availableChannelInfo)
           THEN <<_warning("not SUCCESS but provided", 0, 0, 2, 0)>> ELSE <<>>)
       \o (IF ~IsNone(resp.availabilityExpireTime)
           THEN <<_warning("not SUCCESS but provided", 0, 0, 3, 0)>> ELSE <<>>)
  ELSE (IF IsNone(resp.availabilityExpireTime)
        THEN <<_warning("SUCCESS without availabilityExpireTime", 0, 0, 0, 0)>> ELSE <<>>)
       \o (IF IsNone(resp.availableChannelInfo) /\ IsNone(resp.availableFrequencyInfo)
           THEN <<_warning("SUCCESS without availability", 0, 0, 0, 0)>> ELSE <<>>)

\* The warnings of validate_available_spectrum_inquiry_response
ResponseLog(resp) ==
  PresenceLog(resp)
  \o (IF ~IsNone(resp.availableFrequencyInfo)
      THEN FrequencyInfoLog(Get(resp.availableFrequencyInfo)) ELSE <<>>)
  \o (IF ~IsNone(resp.availableChannelInfo)
      THEN ChannelInfoLog(Get(resp.availableChannelInfo)) ELSE <<>>)
  \o (IF ~IsNone(resp.availabilityExpireTime)
         /\ Get(resp.availabilityExpireTime) \notin WellFormedExpireTimes
      THEN <<_warning("availabilityExpireTime format", 0, 0, 0, 0)>> ELSE <<>>)

\* The warnings of validate_available_spectrum_inquiry_response_message
RECURSIVE ResponsesLog(_)
ResponsesLog(lst) ==
  IF Len(lst) = 0 THEN <<>> ELSE ResponseLog(Head(lst)) \o ResponsesLog(Tail(lst))

ResponseMessageLog(msg) ==
  LET lst == msg.availableSpectrumInquiryResponses IN
  (IF msg.version \notin WellFormedVersions
   THEN <<_warning("version", 0, 0, 0, 0)>> ELSE <<>>)
  \o (IF Len(lst) < 1 THEN <<_warning("no responses", 0, 0, 0, 0)>>
      ELSE ResponsesLog(lst)
           \o (IF ~UniqueIds(lst) THEN <<_warning("requestId occurs twice", 0, 0, 0, 0)>>
               ELSE <<>>))

\* Responses for the response validator: frequency ranges in and out of
\* order, channel lists of equal and of unequal length, an expire time that
\* is absent, well formed or without its Z
ValFreqInfos ==
  {AvailableFrequencyInfo(r[1], r[2], 1) : r \in {<<0, 1>>, <<1, 1>>, <<2, 1>>}}

ValChanInfos ==
  {AvailableChannelInfo(131, <<1>>, eirp) : eirp \in {<<25>>, <<>>}}

ValResponses ==
  {AvailableSpectrumInquiryResponse(requestId, "R", IntCode(code), freq, chan, expire, None) :
     requestId \in {"A"},
     code \in {-1, 0, 999},
     freq \in {None} \cup {Some(l) : l \in Lists2(ValFreqInfos)},
     chan \in {None} \cup {Some(l) : l \in Lists2(ValChanInfos)},
     expire \in {None, Some("2030-01-01T00:00:00Z"), Some("2030-01-01T00:00:00")}}

\* The responses of the messages: well-formed apart from their response code
ValMsgResponses ==
  {AvailableSpectrumInquiryResponse(requestId, "R", IntCode(code), None, None, None, None) :
     requestId \in {"A", "B"}, code \in {-1, 0, 999}}

ValResponseMessages ==
  {AvailableSpectrumInquiryResponseMessage(version, responses, None) :
     version \in {"1.3", "one"}, responses \in Lists2(ValMsgResponses)}

\* A call of validate_available_spectrum_inquiry_response
ValidateResponse ==
  /\ pc = "ready"
  /\ call = "validate_available_spectrum_inquiry_response"
  /\ outcome' = ValidatorOutcome(validate_available_spectrum_inquiry_response(received),
                                 ResponseLog(received))
  /\ pc' = "done"
  /\ UNCHANGED <<call, expected, received, validate_objects,
               _enforce_strict_polygon, _geopy_available,
               sweep_vars, afc_vars, main_vars>>

\* A call of validate_available_spectrum_inquiry_response_message
ValidateResponseMessage ==
  /\ pc = "ready"
  /\ call = "validate_available_spectrum_inquiry_response_message"
  /\ outcome' = ValidatorOutcome(
                  validate_available_spectrum_inquiry_response_message(received),
                  ResponseMessageLog(received))
  /\ pc' = "done"
  /\ UNCHANGED <<call, expected, received, validate_objects,
               _enforce_strict_polygon, _geopy_available,
               sweep_vars, afc_vars, main_vars>>

InitResp ==
  \/ \E recv \in ValResponses :
       Ready("validate_available_spectrum_inquiry_response", None, recv, FALSE)
  \/ \E recv \in ValResponseMessages :
       Ready("validate_available_spectrum_inquiry_response_message", None, recv, FALSE)

NextResp == ValidateResponse \/ ValidateResponseMessage

SpecResp == InitResp /\ [][NextResp]_vars

\* The warnings of validate_expected_power_range (response_mask_validator.py
\* lines 52-76), about entry item of the list the range is part of
PowerRangeLog(pow_range, item) ==
  LET fields == PowerFields(pow_range)
      nans == SelectSeq([k \in 1..Len(fields) |-> _warning("NaN", item, 0, k, 0)],
                        LAMBDA e : isnan(fields[e.a]))
  IN nans
     \o (IF Greater(pow_range.lowerBound, pow_range.upperBound)
         THEN <<_warning("lowerBound above upperBound", item, 0, 0, 0)>> ELSE <<>>)
     \o (IF ~IsNone(pow_range.nominalValue)
            /\ Greater(Get(pow_range.nominalValue), pow_range.upperBound)
         THEN <<_warning("nominalValue above upperBound", item, 0, 0, 0)>> ELSE <<>>)
     \o (IF ~IsNone(pow_range.nominalValue)
            /\ Greater(pow_range.lowerBound, Get(pow_range.nominalValue))
         THEN <<_warning("lowerBound above nominalValue", item, 0, 0, 0)>> ELSE <<>>)

\* The warnings of validate_expected_frequency_info (lines 93-95) on entry
\* item
ExpectedFrequencyInfoLog(info, item) ==
  (IF ~validate_frequency_range(info.frequencyRange).is_valid
   THEN <<_warning("frequencyRange", item, 0, info.frequencyRange.lowFrequency,
                   info.frequencyRange.highFrequency)>>
   ELSE <<>>)
  \o PowerRangeLog(info.maxPsd, item)

\* The concatenation of a list of logs
RECURSIVE Concat(_)
Concat(logs) == IF Len(logs) = 0 THEN <<>> ELSE Head(logs) \o Concat(Tail(logs))

\* The warnings of validate_expected_channel_info (lines 112-148) on entry
\* item
ExpectedChannelInfoLog(info, item) ==
  (IF Len(info.channelCfi) # Len(info.maxEirp)
   THEN <<_warning("channel lengths", item, 0, Len(info.channelCfi), Len(info.maxEirp))>>
   ELSE <<>>)
  \o Concat([k \in 1..Len(info.maxEirp) |-> PowerRangeLog(info.maxEirp[k], item)])
  \o (IF Len(info.channelCfi) # Cardinality(SeqToSet(info.channelCfi))
      THEN <<_warning("duplicate channelCfis", item, 0, 0, 0)>> ELSE <<>>)

\* The warnings of the overlap rule (lines 247-256): one for each pair of
\* entries that overlap
OverlapLog(infos) ==
  Concat([i \in 1..Len(infos) |->
            SelectSeq([j \in 1..Len(infos) |-> _warning("overlap", i, j, 0, 0)],
                      LAMBDA e : e.ref > i
                                 /\ overlaps(infos[i].frequencyRange,
                                             infos[e.ref].frequencyRange))])

\* The warnings of the availability rules (lines 216-259)
ExpectedAvailabilityLog(exp) ==
  IF ~IsNone(exp.expectedChannelInfo)
  THEN LET chan == Get(exp.expectedChannelInfo)
           all_gocs == [k \in 1..Len(chan) |-> chan[k].globalOperatingClass]
       IN Concat([k \in 1..Len(chan) |-> ExpectedChannelInfoLog(chan[k], k)])
          \o (IF Len(all_gocs) # Cardinality(SeqToSet(all_gocs))
              THEN <<_warning("globalOperatingClass occurs twice", 0, 0, 0, 0)>>
              ELSE <<>>)
          \o (IF ~IsNone(exp.expectedFrequencyInfo)
              THEN LET freq == Get(exp.expectedFrequencyInfo)
                   IN Concat([k \in 1..Len(freq) |-> ExpectedFrequencyInfoLog(freq[k], k)])
                      \o OverlapLog(freq)
              ELSE <<>>)
  ELSE <<>>

\* The warnings of validate_expected_spectrum_inquiry_response up to the
\* exception that leaves it, if one does
MaskLog(exp) ==
  IF Len(exp.expectedResponseCodes) < 1
  THEN <<_warning("no expectedResponseCodes", 0, 0, 0, 0)>> \o ExpectedAvailabilityLog(exp)
  ELSE IF ValidateExpectedResponseCodes(exp).raised # "none" THEN <<>>
  ELSE LET codes == exp.expectedResponseCodes
           success == \E i \in 1..Len(codes) : afc_resp_get_raw_value(codes[i]) = Some(0)
       IN (IF success /\ Len(codes) > 1
           THEN <<_warning("SUCCESS and other codes", 0, 0, 0, 0)>> ELSE <<>>)
          \o (IF success /\ IsNone(exp.expectedChannelInfo)
                 /\ IsNone(exp.expectedFrequencyInfo)
              THEN <<_warning("SUCCESS without availability", 0, 0, 0, 0)>> ELSE <<>>)
          \o (IF ~success /\ ~IsNone(exp.expectedFrequencyInfo)
              THEN <<_warning("not SUCCESS but provided", 0, 0, 1, 0)>> ELSE <<>>)
          \o (IF ~success /\ ~IsNone(exp.expectedChannelInfo)
              THEN <<_warning("not SUCCESS but provided", 0, 0, 2, 0)>> ELSE <<>>)
          \o ExpectedAvailabilityLog(exp)

\* The warnings of validate_expected_spectrum_inquiry_response_message: the
\* exception of a mask's validation is caught and ends the validation of the
\* list
RECURSIVE MasksLog(_)
MasksLog(lst) ==
  IF Len(lst) = 0 THEN <<>>
  ELSE IF validate_expected_spectrum_inquiry_response(Head(lst)).raised # "none"
  THEN MaskLog(Head(lst)) \o <<_warning("exception caught", 0, 0, 0, 0)>>
  ELSE MaskLog(Head(lst)) \o MasksLog(Tail(lst))

\* No mask of the list raises
NoneRaises(lst) ==
  \A k \in 1..Len(lst) : validate_expected_spectrum_inquiry_response(lst[k]).raised = "none"

MaskMessageLog(exp) ==
  LET lst == exp.expectedSpectrumInquiryResponses IN
  (IF exp.version \notin WellFormedVersions
   THEN <<_warning("version", 0, 0, 0, 0)>> ELSE <<>>)
  \o (IF Len(lst) < 1 THEN <<_warning("no responses", 0, 0, 0, 0)>>
      ELSE MasksLog(lst)
           \o (IF NoneRaises(lst) /\ ~UniqueIds(lst)
               THEN <<_warning("requestId occurs twice", 0, 0, 0, 0)>> ELSE <<>>))

\* Power values, NaN among them, and the power ranges over them
PowerValues == 0..MaxPower \cup {NaN}

ValPowerRanges ==
  {ExpectedPowerRange(upper, nominal, lower) :
     upper \in PowerValues,
     nominal \in {None} \cup {Some(v) : v \in PowerValues},
     lower \in {None} \cup {Some(v) : v \in PowerValues}}

\* Masks for the mask validator: frequency entries that overlap or not, in
\* and out of order, with a power range that is valid or not; channel info
\* absent, empty, of one class, of one class twice
ValExpFreqInfos ==
  {FreqDict(r[1], r[2], PowerDict(2, lower)) :
     r \in {<<0, 2>>, <<1, 3>>, <<2, 3>>, <<1, 1>>}, lower \in {None, Some(3)}}

ValExpChanInfos ==
  {<<>>,
   <<ChanDict(131, <<1>>, <<PowerDict(30, Some(20))>>)>>,
   <<ChanDict(131, <<1>>, <<PowerDict(30, Some(20))>>),
     ChanDict(131, <<2>>, <<PowerDict(30, None)>>)>>}

ValMasks ==
  {ExpectedSpectrumInquiryResponse("A", "R", codes, freq, chan, None, None) :
     codes \in {<<>>, <<IntCode(0)>>, <<IntCode(-1)>>, <<IntCode(0), IntCode(-1)>>},
     freq \in {None} \cup {Some(l) : l \in Lists2(ValExpFreqInfos)},
     chan \in {None} \cup {Some(l) : l \in ValExpChanInfos}}

ValMsgMasks ==
  {ExpectedSpectrumInquiryResponse(requestId, "R", codes, None, None, None, None) :
     requestId \in {"A", "B"}, codes \in {<<>>, <<IntCode(-1)>>}}

ValMaskMessages ==
  {ExpectedSpectrumInquiryResponseMessage(version, masks, None) :
     version \in {"1.3", "one"}, masks \in Lists2(ValMsgMasks)}

\* A call of validate_expected_power_range
ValidatePowerRange ==
  /\ pc = "ready"
  /\ call = "validate_expected_power_range"
  /\ outcome' = ValidatorOutcome(validate_expected_power_range(expected),
                                 PowerRangeLog(expected, 0))
  /\ pc' = "done"
  /\ UNCHANGED <<call, expected, received, validate_objects,
               _enforce_strict_polygon, _geopy_available,
               sweep_vars, afc_vars, main_vars>>

\* A call of validate_expected_spectrum_inquiry_response
ValidateMask ==
  /\ pc = "ready"
  /\ call = "validate_expected_spectrum_inquiry_response"
  /\ outcome' = ValidatorOutcome(validate_expected_spectrum_inquiry_response(expected),
                                 MaskLog(expected))
  /\ pc' = "done"
  /\ UNCHANGED <<call, expected, received, validate_objects,
               _enforce_strict_polygon, _geopy_available,
               sweep_vars, afc_vars, main_vars>>

\* A call of validate_expected_spectrum_inquiry_response_message
ValidateMaskMessage ==
  /\ pc = "ready"
  /\ call = "validate_expected_spectrum_inquiry_response_message"
  /\ outcome' = ValidatorOutcome(
                  validate_expected_spectrum_inquiry_response_message(expected),
                  MaskMessageLog(expected))
  /\ pc' = "done"
  /\ UNCHANGED <<call, expected, received, validate_objects,
               _enforce_strict_polygon, _geopy_available,
               sweep_vars, afc_vars, main_vars>>

\* Response codes as they are given to the constructor of a mask: integers
\* that are and are not values of the enumeration, and members
ConstructorCodes ==
  {IntCode(-1), IntCode(0), IntCode(999),
   [cls |-> CommonCls, value |-> 0], [cls |-> CommonCls, value |-> 100]}

\* The arguments of a construction of ExpectedSpectrumInquiryResponse
ConstructorArgs ==
  [expectedResponseCodes : Lists2(ConstructorCodes),
   disallowedResponseCodes :
     {None} \cup {Some(l) : l \in Lists2({IntCode(0), IntCode(999),
                                          [cls |-> CommonCls, value |-> 101]})}]

\* A construction of ExpectedSpectrumInquiryResponse: the dataclass
\* constructor and __post_init__
ConstructMask ==
  /\ pc = "ready"
  /\ call = "ExpectedSpectrumInquiryResponse"
  /\ expected' = ExpectedSpectrumInquiryResponse("A", "R", received.expectedResponseCodes,
                                                 None, None, None,
                                                 received.disallowedResponseCodes)
  /\ pc' = "done"
  /\ UNCHANGED <<call, received, validate_objects, outcome,
               _enforce_strict_polygon, _geopy_available,
               sweep_vars, afc_vars, main_vars>>

InitMask ==
  \/ \E args \in ConstructorArgs : Ready("ExpectedSpectrumInquiryResponse", None, args, FALSE)
  \/ \E exp \in ValPowerRanges : Ready("validate_expected_power_range", exp, None, FALSE)
  \/ \E exp \in ValMasks :
       Ready("validate_expected_spectrum_inquiry_response", exp, None, FALSE)
  \/ \E exp \in ValMaskMessages :
       Ready("validate_expected_spectrum_inquiry_response_message", exp, None, FALSE)

NextMask == ConstructMask \/ ValidatePowerRange \/ ValidateMask \/ ValidateMaskMessage

SpecMask == InitMask /\ [][NextMask]_vars

-----------------------------------------------------------------------------
(* request_validator.InquiryRequestValidator: polygons.  A validator of    *)
(* the request side yields [is_valid, raised, log]: what it returns, the   *)
(* exception that leaves it ("none" when it returns) and its warnings.     *)
(*                                                                         *)
(* Coordinates are counted in steps of 0.9 degrees from latitude 0,        *)
(* longitude 0, where a step is a great-circle distance of 100 km and the  *)
(* great circles through the points of the model are straight lines of     *)
(* the grid: distances and intersections are computed in the plane.        *)

\* is_valid &= not self._enforce_strict_polygon, run when a check fails
Enforced(check_holds) == check_holds \/ ~_enforce_strict_polygon

\* available_spectrum_inquiry_request.Point
Point(longitude, latitude) == [longitude |-> longitude, latitude |-> latitude]

\* The great-circle length of one step, in km
StepKm == 100

\* allowed_distance, in km: 130000 + margin
allowed_distance == 155

\* The square of Point.distance_to, in km^2
DistanceSquared(p, q) ==
  StepKm * StepKm * ((p.longitude - q.longitude) * (p.longitude - q.longitude)
                     + (p.latitude - q.latitude) * (p.latitude - q.latitude))

\* The edges of a boundary, from the one that closes it: for point_idx in
\* range(-1, num_pts-1), the pair outerBoundary[point_idx],
\* outerBoundary[point_idx+1]
Edges(outerBoundary) ==
  [k \in 1..Len(outerBoundary) |->
     [vertex1 |-> outerBoundary[IF k = 1 THEN Len(outerBoundary) ELSE k - 1],
      vertex2 |-> outerBoundary[k]]]

\* InquiryRequestValidator._validate_polygon_vertex_separation
_validate_polygon_vertex_separation(outerBoundary) ==
  LET edges == Edges(outerBoundary)
      log == SelectSeq([k \in 1..Len(edges) |-> _warning("separation", k, 0, 0, 0)],
                       LAMBDA e : DistanceSquared(edges[e.item].vertex1,
                                                  edges[e.item].vertex2)
                                  > allowed_distance * allowed_distance)
  IN Result(log = <<>>, log)

\* The side of the line from o to a that b is on: the third component of
\* the cross product of a - o and b - o
Cross(o, a, b) ==
  (a.longitude - o.longitude) * (b.latitude - o.latitude)
  - (a.latitude - o.latitude) * (b.longitude - o.longitude)

\* _Edge.contains_point: the distances from p to the two vertices add up to
\* the length of the edge
contains_point(self, p) ==
  /\ Cross(self.vertex1, self.vertex2, p) = 0
  /\ Min(self.vertex1.longitude, self.vertex2.longitude) <= p.longitude
  /\ p.longitude <= Max(self.vertex1.longitude, self.vertex2.longitude)
  /\ Min(self.vertex1.latitude, self.vertex2.latitude) <= p.latitude
  /\ p.latitude <= Max(self.vertex1.latitude, self.vertex2.latitude)

\* _Edge.intersects: "True", "False", or "ZeroDivisionError" when norm()
\* divides by the length of a zero vector: the normal of an edge whose
\* vertices are the same point, or the cross product of two opposite
\* normals
intersects(self, other) ==
  LET same_circle == /\ Cross(self.vertex1, self.vertex2, other.vertex1) = 0
                     /\ Cross(self.vertex1, self.vertex2, other.vertex2) = 0
      dot == (self.vertex2.longitude - self.vertex1.longitude)
               * (other.vertex2.longitude - other.vertex1.longitude)
             + (self.vertex2.latitude - self.vertex1.latitude)
               * (other.vertex2.latitude - other.vertex1.latitude)
      parallel == (self.vertex2.longitude - self.vertex1.longitude)
                    * (other.vertex2.latitude - other.vertex1.latitude)
                  = (self.vertex2.latitude - self.vertex1.latitude)
                    * (other.vertex2.longitude - other.vertex1.longitude)
      n1_equals_n2 == same_circle /\ dot > 0
      on_both == /\ Cross(self.vertex1, self.vertex2, other.vertex1)
                      * Cross(self.vertex1, self.vertex2, other.vertex2) <= 0
                 /\ Cross(other.vertex1, other.vertex2, self.vertex1)
                      * Cross(other.vertex1, other.vertex2, self.vertex2) <= 0
  IN IF self.vertex1 = self.vertex2 \/ other.vertex1 = other.vertex2
     THEN "ZeroDivisionError"
     ELSE IF n1_equals_n2 \/ self.vertex2 = other.vertex1
     THEN IF contains_point(other, self.vertex1) \/ contains_point(self, other.vertex2)
          THEN "True" ELSE "False"
     ELSE IF same_circle THEN "ZeroDivisionError"
     ELSE IF ~parallel /\ on_both THEN "True" ELSE "False"

\* itertools.combinations(edges, 2), as pairs of indices
Combinations(n) == Concat([i \in 1..n |-> [j \in 1..(n - i) |-> <<i, i + j>>]])

\* InquiryRequestValidator._validate_polygon_edge_intersection
_validate_polygon_edge_intersection(outerBoundary) ==
  LET edges == Edges(outerBoundary)
      pairs == Combinations(Len(edges))
      swapped(pair) == edges[pair[1]] = edges[1] /\ edges[pair[2]] = edges[Len(edges)]
      found == [k \in 1..Len(pairs) |->
                  IF swapped(pairs[k])
                  THEN intersects(edges[pairs[k][2]], edges[pairs[k][1]])
                  ELSE intersects(edges[pairs[k][1]], edges[pairs[k][2]])]
      raising == {k \in 1..Len(pairs) : found[k] = "ZeroDivisionError"}
      run == IF raising = {} THEN Len(pairs)
             ELSE (CHOOSE k \in raising : \A j \in raising : k <= j) - 1
      log == SelectSeq([k \in 1..run |-> _warning("intersection", pairs[k][1], pairs[k][2], 0, 0)],
                       LAMBDA e : \E k \in 1..run : /\ pairs[k] = <<e.item, e.ref>>
                                                    /\ found[k] = "True")
  IN [is_valid |-> log = <<>>,
      raised |-> IF raising = {} THEN "none" ELSE "ZeroDivisionError",
      log |-> log]

\* The tests of a boundary that need geopy (lines 423-439, 491-503): the
\* first distance, or the first end point of a vector, raises ImportError
\* when geopy is not available
GeopyTests(outerBoundary) ==
  IF ~_geopy_available /\ Len(outerBoundary) >= 1
  THEN Result(TRUE, <<_warning("geopy not available", 0, 0, 0, 0)>>)
  ELSE LET separation == _validate_polygon_vertex_separation(outerBoundary)
           intersection == _validate_polygon_edge_intersection(outerBoundary)
       IN AndThen(Result(Enforced(separation.is_valid), separation.log),
                  [is_valid |-> Enforced(intersection.is_valid),
                   raised |-> intersection.raised,
                   log |-> intersection.log])

\* The number of vertices and their uniqueness (lines 405-421, 473-489)
VertexTests(outerBoundary) ==
  LET count == 3 <= Len(outerBoundary) /\ Len(outerBoundary) <= 15
      unique == Len(outerBoundary) = Cardinality(SeqToSet(outerBoundary))
  IN Result(Enforced(count) /\ Enforced(unique),
            (IF count THEN <<>> ELSE <<_warning("number of vertices", 0, 0, 0, 0)>>)
            \o (IF unique THEN <<>> ELSE <<_warning("non-unique vertices", 0, 0, 0, 0)>>))

\* InquiryRequestValidator.validate_point: -90 <= latitude <= 90 and
\* -180 <= longitude <= 180, in steps of 0.9 degrees
validate_point(point) ==
  LET lat == -100 <= point.latitude /\ point.latitude <= 100
      lon == -200 <= point.longitude /\ point.longitude <= 200
  IN Result(lat /\ lon,
            (IF lat THEN <<>> ELSE <<_warning("latitude", 0, 0, point.latitude, 0)>>)
            \o (IF lon THEN <<>> ELSE <<_warning("longitude", 0, 0, point.longitude, 0)>>))

\* InquiryRequestValidator.validate_vector (every length of the model is
\* finite)
validate_vector(vector) ==
  LET angle == 0 <= vector.angle /\ vector.angle <= 360
  IN Result(angle, IF angle THEN <<>> ELSE <<_warning("angle", 0, 0, vector.angle, 0)>>)

\* Vector.endpoint_from: the point at vector.length km from src in the
\* direction vector.angle, clockwise from north, for the vectors of the
\* model
endpoint_from(self, src) ==
  LET east == CASE self.angle = 0 -> 0
                [] self.angle = 45 -> 1
                [] self.angle = 90 -> self.length \div StepKm
                [] OTHER -> 0
      north == CASE self.angle = 0 -> self.length \div StepKm
                 [] self.angle = 45 -> 1
                 [] OTHER -> 0
  IN Point(src.longitude + east, src.latitude + north)

\* InquiryRequestValidator.validate_linear_polygon
validate_linear_polygon(poly) ==
  AndThen(AllResults([k \in 1..Len(poly.outerBoundary) |->
                        validate_point(poly.outerBoundary[k])]),
  AndThen(VertexTests(poly.outerBoundary),
          GeopyTests(poly.outerBoundary)))

\* InquiryRequestValidator.validate_radial_polygon; LinearPolygon.from_radial
\* gives the end points of the vectors from the center
validate_radial_polygon(poly) ==
  LET lin_poly == [outerBoundary |-> [k \in 1..Len(poly.outerBoundary) |->
                                        endpoint_from(poly.outerBoundary[k], poly.center)]]
  IN AndThen(validate_point(poly.center),
     AndThen(AllResults([k \in 1..Len(poly.outerBoundary) |->
                           validate_vector(poly.outerBoundary[k])]),
     AndThen(VertexTests(poly.outerBoundary),
             GeopyTests(lin_poly.outerBoundary))))

\* What a validator of the request side with result r returns or raises
RequestOutcome(r) == ValidatorOutcome(r, r.log)

\* The most vertices of a polygon of the model, but for the polygon of
\* sixteen
MaxVertices == 4

\* The points of the model: the corners of a square of one step, and a
\* point two steps from the first
Corners == {Point(0, 0), Point(1, 0), Point(1, 1), Point(0, 1), Point(2, 0)}

\* A polygon of more than 15 vertices: four times around the square
Sixteen ==
  [k \in 1..16 |-> <<Point(0, 0), Point(1, 0), Point(1, 1), Point(0, 1)>>[((k - 1) % 4) + 1]]

LinearPolygons ==
  {[outerBoundary |-> ob] : ob \in SeqsUpTo(Corners, MaxVertices) \cup {Sixteen}}

\* Vectors from the point 0, 0 to the other points of the model
Vectors ==
  {[length |-> 100, angle |-> 0], [length |-> 100, angle |-> 90],
   [length |-> 141, angle |-> 45], [length |-> 200, angle |-> 90]}

RadialPolygons ==
  {[center |-> Point(0, 0), outerBoundary |-> ob] : ob \in SeqsUpTo(Vectors, MaxVertices)}

\* The state before a call of a validator of the request side
ReadyRequest(c, recv, strict, geopy) ==
  /\ call = c
  /\ expected = None
  /\ received = recv
  /\ validate_objects = FALSE
  /\ pc = "ready"
  /\ outcome = NoOutcome
  /\ _enforce_strict_polygon = strict
  /\ _geopy_available = geopy
  /\ NoSweep /\ NoConnection /\ NoTests

\* A call of validate_linear_polygon
ValidateLinearPolygon ==
  /\ pc = "ready"
  /\ call = "validate_linear_polygon"
  /\ outcome' = RequestOutcome(validate_linear_polygon(received))
  /\ pc' = "done"
  /\ UNCHANGED <<call, expected, received, validate_objects,
                 _enforce_strict_polygon, _geopy_available,
               sweep_vars, afc_vars, main_vars>>

\* A call of validate_radial_polygon
ValidateRadialPolygon ==
  /\ pc = "ready"
  /\ call = "validate_radial_polygon"
  /\ outcome' = RequestOutcome(validate_radial_polygon(received))
  /\ pc' = "done"
  /\ UNCHANGED <<call, expected, received, validate_objects,
                 _enforce_strict_polygon, _geopy_available,
               sweep_vars, afc_vars, main_vars>>

InitPolygon ==
  \E strict \in BOOLEAN, geopy \in BOOLEAN :
    \/ \E poly \in LinearPolygons :
         ReadyRequest("validate_linear_polygon", poly, strict, geopy)
    \/ \E poly \in RadialPolygons :
         ReadyRequest("validate_radial_polygon", poly, strict, geopy)

NextPolygon == ValidateLinearPolygon \/ ValidateRadialPolygon

SpecPolygon == InitPolygon /\ [][NextPolygon]_vars

-----------------------------------------------------------------------------
(* request_validator.InquiryRequestValidator: locations, requests and      *)
(* messages of requests                                                    *)

\* math.isfinite
isfinite(x) == x # NaN /\ x # NegInf

\* InquiryRequestValidator.validate_elevation
validate_elevation(elev) ==
  LET height == isfinite(elev.height)
      heightType == elev.heightType \in {"AGL", "AMSL"}
      uncertainty == 0 <= elev.verticalUncertainty
  IN Result(height /\ heightType /\ uncertainty,
            (IF height THEN <<>> ELSE <<_warning("height", 0, 0, 0, 0)>>)
            \o (IF heightType THEN <<>> ELSE <<_warning("heightType", 0, 0, 0, 0)>>)
            \o (IF uncertainty THEN <<>> ELSE <<_warning("verticalUncertainty", 0, 0, 0, 0)>>))

\* InquiryRequestValidator.validate_ellipse
validate_ellipse(ellipse) ==
  LET major == 0 <= ellipse.majorAxis
      minor == 0 <= ellipse.minorAxis
      order == ellipse.majorAxis >= ellipse.minorAxis
      orientation == 0 <= ellipse.orientation /\ ellipse.orientation <= 180
  IN AndThen(validate_point(ellipse.center),
             Result(major /\ minor /\ order /\ orientation,
                    (IF major THEN <<>> ELSE <<_warning("majorAxis", 0, 0, 0, 0)>>)
                    \o (IF minor THEN <<>> ELSE <<_warning("minorAxis", 0, 0, 0, 0)>>)
                    \o (IF order THEN <<>> ELSE <<_warning("major axis below minor", 0, 0, 0, 0)>>)
                    \o (IF orientation THEN <<>> ELSE <<_warning("orientation", 0, 0, 0, 0)>>)))

\* The number of the fields ellipse, linearPolygon, radialPolygon of a
\* location that are not None: sum(present_flags)
NumShapes(loc) ==
  (IF IsNone(loc.ellipse) THEN 0 ELSE 1)
  + (IF IsNone(loc.linearPolygon) THEN 0 ELSE 1)
  + (IF IsNone(loc.radialPolygon) THEN 0 ELSE 1)

\* The rule of validate_location on the number of shapes, with the rule
\* "at least one" only
ExclusiveShape_AtLeastOne(loc) ==
  Result(NumShapes(loc) >= 1,
         IF NumShapes(loc) = 0 THEN <<_warning("no shape", 0, 0, 0, 0)>> ELSE <<>>)

\* One and only one of ellipse, linearPolygon, radialPolygon is provided
\* (lines 596-614)
ExclusiveShape(loc) ==
  Result(NumShapes(loc) = 1,
         IF NumShapes(loc) = 0 THEN <<_warning("no shape", 0, 0, 0, 0)>>
         ELSE IF NumShapes(loc) = 1 THEN <<>>
         ELSE <<_warning("more than one shape", 0, 0, NumShapes(loc), 0)>>)

\* InquiryRequestValidator.validate_location
validate_location(loc) ==
  LET indoor == IsNone(loc.indoorDeployment) \/ Get(loc.indoorDeployment) \in {0, 1, 2}
  IN AndThen(validate_elevation(loc.elevation),
     AndThen(IF IsNone(loc.ellipse) THEN Result(TRUE, <<>>)
             ELSE validate_ellipse(Get(loc.ellipse)),
     AndThen(IF IsNone(loc.linearPolygon) THEN Result(TRUE, <<>>)
             ELSE validate_linear_polygon(Get(loc.linearPolygon)),
     AndThen(IF IsNone(loc.radialPolygon) THEN Result(TRUE, <<>>)
             ELSE validate_radial_polygon(Get(loc.radialPolygon)),
     AndThen(ExclusiveShape(loc),
             Result(indoor, IF indoor THEN <<>>
                            ELSE <<_warning("indoorDeployment", 0, 0, 0, 0)>>))))))

\* InquiryRequestValidator.validate_device_descriptor, with
\* validate_certification_id: a rulesetId that is not one of the accepted
\* values is warned about and valid
validate_device_descriptor(dev) ==
  LET accepted == {"US_47_CFR_PART_15_SUBPART_E", "CA_RES_DBS-06"}
      ids == dev.certificationId
  IN IF Len(ids) < 1 THEN Result(FALSE, <<_warning("no CertificationID", 0, 0, 0, 0)>>)
     ELSE Result(TRUE, SelectSeq([k \in 1..Len(ids) |-> _warning("rulesetId", k, 0, 0, 0)],
                                 LAMBDA e : ids[e.item].rulesetId \notin accepted))

\* InquiryRequestValidator.validate_channels
validate_channels(channels) ==
  LET goc == isfinite(channels.globalOperatingClass)
      cfi == IsNone(channels.channelCfi)
             \/ \A k \in 1..Len(Get(channels.channelCfi)) : isfinite(Get(channels.channelCfi)[k])
  IN Result(goc /\ cfi,
            (IF goc THEN <<>> ELSE <<_warning("globalOperatingClass", 0, 0, 0, 0)>>)
            \o (IF cfi THEN <<>> ELSE <<_warning("channelCfi", 0, 0, 0, 0)>>))

\* The inquiry rules of validate_available_spectrum_inquiry_request (lines
\* 707-735): all() is given a generator over inquiredFrequencyRange and a
\* list over inquiredChannels
ValidateInquiry(req) ==
  LET none == IsNone(req.inquiredFrequencyRange) /\ IsNone(req.inquiredChannels)
      freq == Get(req.inquiredFrequencyRange)
      verdicts == [k \in 1..Len(freq) |-> validate_frequency_range(freq[k])]
      chan == Get(req.inquiredChannels)
  IN AndThen(Result(~none, IF none THEN <<_warning("no inquiry", 0, 0, 0, 0)>> ELSE <<>>),
     AndThen(IF IsNone(req.inquiredFrequencyRange) THEN Result(TRUE, <<>>)
             ELSE IF Len(freq) < 1
             THEN Result(FALSE, <<_warning("inquiredFrequencyRange empty", 0, 0, 0, 0)>>)
             ELSE Result(\A k \in 1..Len(freq) : verdicts[k].is_valid,
                         SelectSeq([k \in 1..GeneratorVisited(verdicts) |->
                                      _warning("frequencyRange", k, 0, 0, 0)],
                                   LAMBDA e : ~verdicts[e.item].is_valid)),
             IF IsNone(req.inquiredChannels) THEN Result(TRUE, <<>>)
             ELSE IF Len(chan) < 1
             THEN Result(FALSE, <<_warning("inquiredChannels empty", 0, 0, 0, 0)>>)
             ELSE AllResults([k \in 1..Len(chan) |-> validate_channels(chan[k])])))

\* The rules on minDesiredPower with no minDesiredPower accepted
ValidateMinDesiredPower_NeverGiven(req) ==
  Result(IsNone(req.minDesiredPower),
         IF IsNone(req.minDesiredPower) THEN <<>>
         ELSE <<_warning("minDesiredPower", 0, 0, 0, 0)>>)

\* The rules of validate_available_spectrum_inquiry_request on
\* minDesiredPower (lines 737-749)
ValidateMinDesiredPower(req) ==
  IF IsNone(req.minDesiredPower) THEN Result(TRUE, <<>>)
  ELSE AndThen(IF IsNone(req.inquiredChannels)
               THEN Result(FALSE, <<_warning("minDesiredPower without channels", 0, 0, 0, 0)>>)
               ELSE Result(TRUE, <<>>),
               IF isnan(Get(req.minDesiredPower))
               THEN Result(FALSE, <<_warning("minDesiredPower", 0, 0, 0, 0)>>)
               ELSE Result(TRUE, <<>>))

\* InquiryRequestValidator.validate_available_spectrum_inquiry_request
validate_available_spectrum_inquiry_request(req) ==
  AndThen(validate_device_descriptor(req.deviceDescriptor),
  AndThen(validate_location(req.location),
  AndThen(ValidateInquiry(req),
          ValidateMinDesiredPower(req))))

\* InquiryRequestValidator.validate_available_spectrum_inquiry_request_message:
\* ZeroDivisionError is not among the exceptions it catches
validate_available_spectrum_inquiry_request_message(msg) ==
  LET lst == msg.availableSpectrumInquiryRequests
      version == validate_version(msg.version).is_valid
      flags == [k \in 1..Len(lst) |-> validate_available_spectrum_inquiry_request(lst[k])]
      all_flags == AllResults(flags)
      mixture == /\ \E k \in 1..Len(lst) : flags[k].is_valid
                 /\ \E k \in 1..Len(lst) : ~flags[k].is_valid
      unique == UniqueIds(lst)
  IN AndThen(Result(version, IF version THEN <<>> ELSE <<_warning("version", 0, 0, 0, 0)>>),
             IF Len(lst) < 1 THEN Result(FALSE, <<_warning("no requests", 0, 0, 0, 0)>>)
             ELSE AndThen(all_flags,
                          Result(unique,
                                 (IF mixture THEN <<_warning("mixture", 0, 0, 0, 0)>> ELSE <<>>)
                                 \o (IF unique THEN <<>>
                                     ELSE <<_warning("requestId occurs twice", 0, 0, 0, 0)>>))))

\* Elevations, ellipses and polygons for locations: valid ones, an
\* elevation of an unsupported heightType, an ellipse whose minor axis is
\* the longer, a polygon of two vertices and one with a vertex given twice
\* in succession
Elevations ==
  {[height |-> 3, heightType |-> heightType, verticalUncertainty |-> 2] :
     heightType \in {"AGL", "MSL"}}

Ellipses ==
  {[center |-> Point(0, 0), majorAxis |-> 10, minorAxis |-> minorAxis, orientation |-> 0] :
     minorAxis \in {5, 20}}

LocationLinearPolygons ==
  {[outerBoundary |-> ob] :
     ob \in {<<Point(0, 0), Point(1, 0), Point(1, 1), Point(0, 1)>>,
             <<Point(0, 0), Point(1, 0)>>,
             <<Point(0, 0), Point(0, 0), Point(1, 0), Point(1, 1)>>}}

LocationRadialPolygons ==
  {[center |-> Point(0, 0),
    outerBoundary |-> <<[length |-> 100, angle |-> 0], [length |-> 141, angle |-> 45],
                        [length |-> 100, angle |-> 90]>>]}

Locations ==
  [elevation : Elevations,
   ellipse : {None} \cup {Some(e) : e \in Ellipses},
   linearPolygon : {None} \cup {Some(p) : p \in LocationLinearPolygons},
   radialPolygon : {None} \cup {Some(p) : p \in LocationRadialPolygons},
   indoorDeployment : {None, Some(1), Some(3)}]

\* Requests: a device descriptor without certification ids, with an
\* accepted and with another rulesetId; inquiry lists absent, empty, valid,
\* with invalid entries; minDesiredPower absent, a number, NaN
DeviceDescriptors ==
  {[serialNumber |-> "S", certificationId |-> ids] :
     ids \in {<<>>, <<[rulesetId |-> "US_47_CFR_PART_15_SUBPART_E", id |-> "X"]>>,
              <<[rulesetId |-> "OTHER", id |-> "X"]>>}}

RequestLocations ==
  {loc \in Locations :
     /\ NumShapes(loc) <= 1 \/ (IsNone(loc.radialPolygon) /\ loc.indoorDeployment = None)
     /\ loc.elevation.heightType = "AGL" \/ loc.indoorDeployment = None}

InquiredFrequencyRanges ==
  {None, Some(<<>>), Some(<<FrequencyRange(1, 2)>>),
   Some(<<FrequencyRange(1, 1), FrequencyRange(2, 1)>>)}

InquiredChannels ==
  {None, Some(<<>>), Some(<<[globalOperatingClass |-> 131, channelCfi |-> Some(<<1, 5>>)]>>),
   Some(<<[globalOperatingClass |-> 131, channelCfi |-> None],
          [globalOperatingClass |-> NaN, channelCfi |-> None]>>)}

AvailableSpectrumInquiryRequest(requestId, deviceDescriptor, location, freq, chan, power) ==
  [requestId |-> requestId, deviceDescriptor |-> deviceDescriptor, location |-> location,
   inquiredFrequencyRange |-> freq, inquiredChannels |-> chan, minDesiredPower |-> power,
   vendorExtensions |-> None]

Requests ==
  {AvailableSpectrumInquiryRequest("A", dev, loc, freq, chan, power) :
     dev \in DeviceDescriptors, loc \in RequestLocations,
     freq \in InquiredFrequencyRanges, chan \in InquiredChannels,
     power \in {None, Some(3), Some(NaN)}}

\* Requests for messages: valid ones, one without inquiry, one whose
\* polygon has a vertex twice in succession
MsgRequests ==
  LET dev == [serialNumber |-> "S",
              certificationId |-> <<[rulesetId |-> "CA_RES_DBS-06", id |-> "X"]>>]
      elevation == [height |-> 3, heightType |-> "AGL", verticalUncertainty |-> 2]
      ellipse == [elevation |-> elevation, linearPolygon |-> None, radialPolygon |-> None,
                  indoorDeployment |-> None,
                  ellipse |-> Some([center |-> Point(0, 0), majorAxis |-> 10,
                                    minorAxis |-> 5, orientation |-> 0])]
      polygon == [elevation |-> elevation, ellipse |-> None, radialPolygon |-> None,
                  indoorDeployment |-> None,
                  linearPolygon |-> Some([outerBoundary |->
                    <<Point(0, 0), Point(0, 0), Point(1, 0), Point(1, 1)>>])]
  IN {AvailableSpectrumInquiryRequest(requestId, dev, loc, freq, None, None) :
        requestId \in {"A", "B"}, loc \in {ellipse, polygon},
        freq \in {None, Some(<<FrequencyRange(1, 2)>>)}}

RequestMessages ==
  [version : {"1.3", "one"},
   availableSpectrumInquiryRequests : Lists2(MsgRequests),
   vendorExtensions : {None}]

\* A call of validate_location
ValidateLocation ==
  /\ pc = "ready"
  /\ call = "validate_location"
  /\ outcome' = RequestOutcome(validate_location(received))
  /\ pc' = "done"
  /\ UNCHANGED <<call, expected, received, validate_objects,
                 _enforce_strict_polygon, _geopy_available,
               sweep_vars, afc_vars, main_vars>>

\* A call of validate_available_spectrum_inquiry_request
ValidateRequest ==
  /\ pc = "ready"
  /\ call = "validate_available_spectrum_inquiry_request"
  /\ outcome' = RequestOutcome(validate_available_spectrum_inquiry_request(received))
  /\ pc' = "done"
  /\ UNCHANGED <<call, expected, received, validate_objects,
                 _enforce_strict_polygon, _geopy_available,
               sweep_vars, afc_vars, main_vars>>

\* A call of validate_available_spectrum_inquiry_request_message
ValidateRequestMessage ==
  /\ pc = "ready"
  /\ call = "validate_available_spectrum_inquiry_request_message"
  /\ outcome' = RequestOutcome(validate_available_spectrum_inquiry_request_message(received))
  /\ pc' = "done"
  /\ UNCHANGED <<call, expected, received, validate_objects,
                 _enforce_strict_polygon, _geopy_available,
               sweep_vars, afc_vars, main_vars>>

InitRequest ==
  \E geopy \in BOOLEAN :
    \/ \E strict \in BOOLEAN, loc \in Locations :
         ReadyRequest("validate_location", loc, strict, geopy)
    \/ \E req \in Requests :
         ReadyRequest("validate_available_spectrum_inquiry_request", req, FALSE, geopy)

NextRequest == ValidateLocation \/ ValidateRequest

SpecRequest == InitRequest /\ [][NextRequest]_vars

\* The three validators of messages
InitMessage ==
  \/ \E geopy \in BOOLEAN, msg \in RequestMessages :
       ReadyRequest("validate_available_spectrum_inquiry_request_message", msg, FALSE, geopy)
  \/ \E msg \in ValResponseMessages :
       Ready("validate_available_spectrum_inquiry_response_message", None, msg, FALSE)
  \/ \E msg \in ValMaskMessages :
       Ready("validate_expected_spectrum_inquiry_response_message", msg, None, FALSE)

NextMessage == ValidateRequestMessage \/ ValidateResponseMessage \/ ValidateMaskMessage

SpecMessage == InitMessage /\ [][NextMessage]_vars

-----------------------------------------------------------------------------
(* response_mask_runner.ResponseMaskRunner.run_test_response: the frequency *)
(* sweep of lines 117-146 one loop iteration at a time.  recv_item is the   *)
(* position of the for loop in received.availableFrequencyInfo, cursor is   *)
(* curr_freq; outcome holds received_expected and the log so far.           *)

\* The entries of a mask's list in any order and of any shape: low and high
\* frequency are any two of 0..MaxFreq, at most two apart
AnyEntries ==
  {ExpectedAvailableFrequencyInfo(FreqDict(r[1], r[2], PowerDict(1, None))) :
     r \in {q \in (0..MaxFreq) \X (0..MaxFreq) : q[2] - q[1] \in -2..2}}

\* Masks whose expectedFrequencyInfo was assigned after construction
SweepMasks ==
  {[ExpectedSpectrumInquiryResponse("A", "R", <<IntCode(0)>>, None, None, None, None)
      EXCEPT !.expectedFrequencyInfo = Some(freq)] : freq \in SeqsUpTo(AnyEntries, MaxExpFreq)}

\* Responses of one to MaxRecvFreq frequency infos over 0..MaxFreq
SweepResponses ==
  {AvailableSpectrumInquiryResponse("A", "R", IntCode(0), Some(freq), None,
                                    Some("2030-01-01T00:00:00Z"), None) :
     freq \in SeqsUpTo({AvailableFrequencyInfo(0, MaxFreq, 1)}, MaxRecvFreq) \ {<<>>}}

\* The mask's list and the received list of the sweep
SweepMask == Get(expected.expectedFrequencyInfo)
SweepReceived == Get(received.availableFrequencyInfo)

\* Lines 80-116: the checks before the sweep; both lists are present
BeginSweep ==
  /\ pc = "ready"
  /\ call = "run_test_response"
  /\ pc' = "for"
  /\ recv_item' = 0
  /\ outcome' = Outcome("True", "comparison",
                        Then(CheckRequestId(expected, received),
                             Then(CheckRulesetId(expected, received),
                                  CheckResponseCode(expected, received))).log)
  /\ UNCHANGED <<call, expected, received, validate_objects, cursor,
                 _enforce_strict_polygon, _geopy_available, afc_vars, main_vars>>

\* Lines 117-118: the for loop takes the next received frequency info
ForNext ==
  /\ pc = "for"
  /\ recv_item < Len(SweepReceived)
  /\ recv_item' = recv_item + 1
  /\ cursor' = SweepReceived[recv_item + 1].frequencyRange.lowFrequency
  /\ pc' = "while"
  /\ UNCHANGED <<call, expected, received, validate_objects, outcome,
                 _enforce_strict_polygon, _geopy_available, afc_vars, main_vars>>

\* Line 119, condition true, and lines 120-146: one iteration of the while
\* loop
WhileIterate ==
  /\ pc = "while"
  /\ cursor < SweepReceived[recv_item].frequencyRange.highFrequency
  /\ LET range == SweepReceived[recv_item].frequencyRange
         scan == ScanMask(SweepMask, 1, cursor, range.lowFrequency, range.highFrequency)
         ok == /\ scan.covering # 0
               /\ in_range(SweepMask[scan.covering].maxPsd, SweepReceived[recv_item].maxPsd)
         entry == IF scan.covering = 0
                  THEN _error("disallowed", recv_item, 0, cursor, scan.high_disallow_freq)
                  ELSE LogRec(IF ok THEN "info" ELSE "error", "psd", recv_item, scan.covering,
                              cursor,
                              Min(SweepMask[scan.covering].frequencyRange.highFrequency,
                                  range.highFrequency))
     IN /\ cursor' = NextCursor(SweepMask, scan)
        /\ outcome' = Outcome(IF ok THEN outcome.result ELSE "False", "comparison",
                              Append(outcome.log, entry))
  /\ UNCHANGED <<call, expected, received, validate_objects, pc, recv_item,
                 _enforce_strict_polygon, _geopy_available, afc_vars, main_vars>>

\* Line 119, condition false: the while loop is left
WhileExit ==
  /\ pc = "while"
  /\ ~(cursor < SweepReceived[recv_item].frequencyRange.highFrequency)
  /\ pc' = "for"
  /\ UNCHANGED <<call, expected, received, validate_objects, outcome, sweep_vars,
                 _enforce_strict_polygon, _geopy_available, afc_vars, main_vars>>

\* Line 117, list exhausted: the sweep is over
ForEnd ==
  /\ pc = "for"
  /\ recv_item = Len(SweepReceived)
  /\ pc' = "swept"
  /\ UNCHANGED <<call, expected, received, validate_objects, outcome, sweep_vars,
                 _enforce_strict_polygon, _geopy_available, afc_vars, main_vars>>

InitSweep ==
  \E exp \in SweepMasks, recv \in SweepResponses :
    Ready("run_test_response", exp, recv, FALSE)

NextSweep == BeginSweep \/ ForNext \/ WhileIterate \/ WhileExit \/ ForEnd

SpecSweep == InitSweep /\ [][NextSweep]_vars

\* The interpreter runs the loops on: a step that can be taken is taken
SpecSweepFair == SpecSweep /\ WF_vars(NextSweep)

-----------------------------------------------------------------------------
(* Calls of the validators of sdi_validator_common on objects and dicts of  *)
(* any content: the argument is held in received                            *)

\* The values of a field: None, the ints of 0..MaxFreq, a float, a str
FieldValues == {PyNone, PyFloat(1), PyStr(1)} \cup {PyInt(n) : n \in 0..MaxFreq}

\* The items of a FrequencyRange and of a VendorExtension
FrequencyRangeItems ==
  {[lowFrequency |-> low, highFrequency |-> high] : low \in FieldValues, high \in FieldValues}
VendorExtensionItems ==
  {[extensionId |-> id, parameters |-> p] :
     id \in {PyNone, PyStr(1), PyInt(1)}, p \in {PyNone, PyStr(1), PyInt(1)}}

\* Arguments of validate_frequency_range: instances, dicts, dicts without
\* highFrequency or with a key that is no field, objects of other types
FrequencyRangeArgs ==
  {PyObject("FrequencyRange", items) : items \in FrequencyRangeItems}
  \cup {PyDict(items) : items \in FrequencyRangeItems}
  \cup {PyDict([lowFrequency |-> low]) : low \in FieldValues}
  \cup {PyDict([lowFrequency |-> PyInt(0), highFrequency |-> PyInt(1), bandwidth |-> PyInt(1)])}
  \cup {PyInt(1), PyNone}

\* Arguments of validate_vendor_extension
VendorExtensionArgs ==
  {PyObject("VendorExtension", items) : items \in VendorExtensionItems}
  \cup {PyDict(items) : items \in VendorExtensionItems}
  \cup {PyDict([extensionId |-> PyStr(1)]), PyInt(1)}

\* Arguments of validate_vendor_extension_list: None, lists of at most two
\* extensions, an int
VendorExtensionListArgs ==
  {PyNone, PyInt(1)}
  \cup {PyList(exts) :
          exts \in SeqsUpTo({PyObject("VendorExtension", items) : items \in VendorExtensionItems}
                            \cup {PyDict([extensionId |-> PyStr(1), parameters |-> PyInt(1)])}, 2)}

\* A call of validate_frequency_range
ValidateFrequencyRange ==
  /\ pc = "ready"
  /\ call = "validate_frequency_range"
  /\ outcome' = RequestOutcome(common_sdi_validator("FrequencyRange", received))
  /\ pc' = "done"
  /\ UNCHANGED <<call, expected, received, validate_objects,
                 _enforce_strict_polygon, _geopy_available,
                 sweep_vars, afc_vars, main_vars>>

\* A call of validate_vendor_extension
ValidateVendorExtension ==
  /\ pc = "ready"
  /\ call = "validate_vendor_extension"
  /\ outcome' = RequestOutcome(validate_vendor_extension(received))
  /\ pc' = "done"
  /\ UNCHANGED <<call, expected, received, validate_objects,
                 _enforce_strict_polygon, _geopy_available,
                 sweep_vars, afc_vars, main_vars>>

\* A call of validate_vendor_extension_list
ValidateVendorExtensionList ==
  /\ pc = "ready"
  /\ call = "validate_vendor_extension_list"
  /\ outcome' = RequestOutcome(validate_vendor_extension_list(received))
  /\ pc' = "done"
  /\ UNCHANGED <<call, expected, received, validate_objects,
                 _enforce_strict_polygon, _geopy_available,
                 sweep_vars, afc_vars, main_vars>>

InitTypes ==
  \/ \E arg \in FrequencyRangeArgs : Ready("validate_frequency_range", None, arg, FALSE)
  \/ \E arg \in VendorExtensionArgs : Ready("validate_vendor_extension", None, arg, FALSE)
  \/ \E arg \in VendorExtensionListArgs :
       Ready("validate_vendor_extension_list", None, arg, FALSE)

NextTypes == ValidateFrequencyRange \/ ValidateVendorExtension \/ ValidateVendorExtensionList

SpecTypes == InitTypes /\ [][NextTypes]_vars

-----------------------------------------------------------------------------
(* run_test_response on masks and responses with vendor extensions *)

\* The values of vendorExtensions: None, an empty list, a valid extension, an
\* extension without extensionId, the dict of an extension
VendorExtensionLists ==
  {None, Some(<<>>),
   Some(<<PyObject("VendorExtension", [extensionId |-> PyStr(1), parameters |-> PyInt(1)])>>),
   Some(<<PyObject("VendorExtension", [extensionId |-> PyNone, parameters |-> PyInt(1)])>>),
   Some(<<PyDict([extensionId |-> PyStr(1), parameters |-> PyInt(1)])>>)}

\* obj with its vendorExtensions replaced
WithVendorExtensions(obj, exts) == [obj EXCEPT !.vendorExtensions = exts]

\* Masks and responses that differ in more than their extensions
ExtMasks ==
  {WithVendorExtensions(
     ExpectedSpectrumInquiryResponse("A", "R", codes, None, chan, None, None), exts) :
     codes \in {<<>>, <<IntCode(0)>>},
     chan \in {None, Some(<<ChanDict(131, <<1>>, <<PowerDict(MaxPower, Some(0))>>)>>)},
     exts \in VendorExtensionLists}

ExtResponses ==
  {AvailableSpectrumInquiryResponse(requestId, "R", IntCode(0), None, chan,
                                    Some("2030-01-01T00:00:00Z"), exts) :
     requestId \in {"A", "B"},
     chan \in {None} \cup {Some(<<AvailableChannelInfo(131, <<1>>, <<eirp>>)>>) :
                             eirp \in {MaxPower, MaxPower + 1}},
     exts \in VendorExtensionLists}

InitExt ==
  \E exp \in ExtMasks, recv \in ExtResponses, validate \in BOOLEAN :
    Ready("run_test_response", exp, recv, validate)

SpecExt == InitExt /\ [][NextResponse]_vars

-----------------------------------------------------------------------------
(* Calls of the mask validators on raw dicts, as test_main makes them: the  *)
(* decorator builds the entity from the items of the dict, and             *)
(* __post_init__ works on the lists of the dict itself.  expected holds the *)
(* dict, a record of the keyword arguments.  A validator is called a second *)
(* time on what the first call left: pc is then "twice".                    *)

\* The dict of a mask
MaskDict(requestId, codes, disallowed, chan) ==
  [requestId |-> requestId, rulesetId |-> "R", expectedResponseCodes |-> codes,
   disallowedResponseCodes |-> disallowed, expectedFrequencyInfo |-> None,
   expectedChannelInfo |-> chan, vendorExtensions |-> None]

\* ExpectedSpectrumInquiryResponse built from the items of the dict d
FromMaskDict(d) ==
  ExpectedSpectrumInquiryResponse(d.requestId, d.rulesetId, d.expectedResponseCodes,
                                  d.expectedFrequencyInfo, d.expectedChannelInfo,
                                  d.vendorExtensions, d.disallowedResponseCodes)

\* The dict of a mask with its lists of codes emptied
MaskDictAfterInit_Emptied(d) ==
  [d EXCEPT !.expectedResponseCodes = <<>>]

\* The dict of a mask after the entity was built from it: lines 156
\* and 165 of expected_inquiry_response.py assign to the elements of the
\* lists of the dict; the other attributes are bound to new lists
MaskDictAfterInit(d) ==
  [d EXCEPT !.expectedResponseCodes = FromMaskDict(d).expectedResponseCodes,
            !.disallowedResponseCodes =
               IF IsNone(@) THEN @ ELSE Some(FromMaskDict(d).disallowedResponseCodes)]

\* ExpectedSpectrumInquiryResponseMessage from a dict: init_from_dicts builds a new
\* list of masks from the dicts of the list
FromMessageDict(d) ==
  ExpectedSpectrumInquiryResponseMessage(d.version,
    [k \in 1..Len(d.expectedSpectrumInquiryResponses) |->
       FromMaskDict(d.expectedSpectrumInquiryResponses[k])], d.vendorExtensions)

\* The dict of a message after the message was built from it
MessageDictAfterInit(d) ==
  [d EXCEPT !.expectedSpectrumInquiryResponses =
              [k \in 1..Len(@) |-> MaskDictAfterInit(@[k])]]

\* Dicts of masks: no code, a member of ResponseCode, the vendor code 999
MaskDicts ==
  {MaskDict(requestId, codes, disallowed, chan) :
     requestId \in {"A", "B"},
     codes \in {<<>>, <<IntCode(0)>>, <<IntCode(999)>>, <<IntCode(-1), IntCode(999)>>},
     disallowed \in {None, Some(<<>>), Some(<<IntCode(0)>>), Some(<<IntCode(999)>>)},
     chan \in {None, Some(<<ChanDict(131, <<1>>, <<PowerDict(MaxPower, Some(0))>>)>>)}}

MessageDicts ==
  {[version |-> "1.3", expectedSpectrumInquiryResponses |-> masks, vendorExtensions |-> None] :
     masks \in SeqsUpTo({d \in MaskDicts : d.requestId = "A" /\ IsNone(d.expectedChannelInfo)},
                        2)}

\* A call of validate_expected_spectrum_inquiry_response on a dict, the
\* first or the second
ValidateMaskDict ==
  /\ pc \in {"ready", "done"}
  /\ call = "validate_expected_spectrum_inquiry_response"
  /\ outcome' = ValidatorOutcome(
                  validate_expected_spectrum_inquiry_response(FromMaskDict(expected)),
                  MaskLog(FromMaskDict(expected)))
  /\ expected' = MaskDictAfterInit(expected)
  /\ pc' = IF pc = "ready" THEN "done" ELSE "twice"
  /\ UNCHANGED <<call, received, validate_objects,
                 _enforce_strict_polygon, _geopy_available,
                 sweep_vars, afc_vars, main_vars>>

\* A call of validate_expected_spectrum_inquiry_response_message on a dict,
\* the first or the second
ValidateMaskMessageDict ==
  /\ pc \in {"ready", "done"}
  /\ call = "validate_expected_spectrum_inquiry_response_message"
  /\ outcome' = ValidatorOutcome(
                  validate_expected_spectrum_inquiry_response_message(FromMessageDict(expected)),
                  MaskMessageLog(FromMessageDict(expected)))
  /\ expected' = MessageDictAfterInit(expected)
  /\ pc' = IF pc = "ready" THEN "done" ELSE "twice"
  /\ UNCHANGED <<call, received, validate_objects,
                 _enforce_strict_polygon, _geopy_available,
                 sweep_vars, afc_vars, main_vars>>

\* A second call of validate_vendor_extension_list, on a list of instances
\* and dicts: the objects built from the dicts are new ones
ValidateVendorExtensionListAgain ==
  /\ pc = "done"
  /\ call = "validate_vendor_extension_list"
  /\ outcome' = RequestOutcome(validate_vendor_extension_list(received))
  /\ pc' = "twice"
  /\ UNCHANGED <<call, expected, received, validate_objects,
                 _enforce_strict_polygon, _geopy_available,
                 sweep_vars, afc_vars, main_vars>>

InitDict ==
  \/ \E d \in MaskDicts : Ready("validate_expected_spectrum_inquiry_response", d, None, FALSE)
  \/ \E d \in MessageDicts :
       Ready("validate_expected_spectrum_inquiry_response_message", d, None, FALSE)
  \/ \E arg \in VendorExtensionListArgs :
       Ready("validate_vendor_extension_list", None, arg, FALSE)

NextDict ==
  \/ ValidateMaskDict
  \/ ValidateMaskMessageDict
  \/ ValidateVendorExtensionList
  \/ ValidateVendorExtensionListAgain

SpecDict == InitDict /\ [][NextDict]_vars

-----------------------------------------------------------------------------
(* Model: the connection handler (afc.py) *)

\* The HTTP status codes and the kinds of body the server may answer with
StatusCodes == {200, 404}
Contents == {"json", "text"}

\* What requests.post does with the request of call number n: it returns a
\* response (which holds the request it answers) or raises
HttpResponse(status_code, content, n) ==
  [status_code |-> status_code, content |-> content, request |-> n]

PostOutcomes(n) ==
  {[raises |-> "", response |-> Some(HttpResponse(s, c, n))] : s \in StatusCodes, c \in Contents}
  \cup {[raises |-> e, response |-> None] : e \in {"SSLError", "ConnectionError", "Timeout"}}

\* How a method of the handler ends: the new _resp, the exception that left it
\* ("" if none) and its log
Sent(resp, raised, log) == [_resp |-> resp, raised |-> raised, log |-> log]

\* A variant of line 152 that keeps the response of the earlier request
ClearedResponse_Kept(self_resp) == self_resp

\* send_request line 152: the existing response is removed
ClearedResponse(self_resp) == None

\* _base_send_request: the assignment of line 131 happens only if post returns
_base_send_request(url, self_resp, post) ==
  IF url # "https"
  THEN Sent(None, "ValueError",
            <<[level |-> "warning", msg |-> "Requested a non-https URL, which is disallowed."]>>)
  ELSE IF post.raises # ""
       THEN Sent(self_resp, post.raises, <<>>)
       ELSE Sent(post.response, "", <<>>)

\* send_request: the match on the type of auth_info; an auth_info of another
\* type matches no case and nothing is sent
send_request(url, auth, self_resp, post) ==
  LET cleared == ClearedResponse(self_resp) IN
  CASE auth = "ClientCertAuth" ->
         LET r == _base_send_request(url, cleared, post) IN
         IF r.raised = "SSLError"
         THEN Sent(None, "",
                   <<[level |-> "warning",
                      msg |-> "Unable to establish secure connection with AFC"]>>)
         ELSE r
    [] auth \in {"AuthBase", "None"} -> _base_send_request(url, cleared, post)
    [] OTHER -> Sent(cleared, "", <<>>)

\* get_last_response: None, the decoded body, the raw body, or JSONDecodeError
get_last_response(self_resp, as_json) ==
  IF self_resp = None THEN None
  ELSE IF as_json
       THEN IF self_resp[1].content = "json"
            THEN Some([json |-> self_resp[1].request])
            ELSE Some([raised |-> "JSONDecodeError"])
       ELSE Some([content |-> self_resp[1].content, of |-> self_resp[1].request])

\* get_last_http_code
get_last_http_code(self_resp) ==
  IF self_resp = None THEN None ELSE Some(self_resp[1].status_code)

\* The types auth_info can have after __init__
AuthTypes == {"None", "ClientCertAuth", "AuthBase", "object"}

\* A call of send_request; outcome keeps how the latest send_request ended
SendRequest ==
  /\ pc \in {"ready", "done"}
  /\ sent < MaxSent
  /\ \E post \in PostOutcomes(sent + 1) :
       LET r == send_request(base_url, auth_info, _resp, post) IN
       /\ _resp' = r._resp
       /\ outcome' = Outcome(IF r.raised = "" THEN "None" ELSE r.raised, "send", r.log)
  /\ sent' = sent + 1
  /\ call' = "send_request"
  /\ pc' = "done"
  /\ received' = None
  /\ UNCHANGED <<expected, validate_objects, _enforce_strict_polygon, _geopy_available,
                 base_url, auth_info, sweep_vars, main_vars>>

\* A call of get_last_response; received is what it hands to the caller
GetLastResponse ==
  /\ pc \in {"ready", "done"}
  /\ \E as_json \in BOOLEAN :
       /\ received' = get_last_response(_resp, as_json)
       /\ validate_objects' = as_json
  /\ call' = "get_last_response"
  /\ pc' = "done"
  /\ UNCHANGED <<expected, outcome, _enforce_strict_polygon, _geopy_available,
                 sweep_vars, afc_vars, main_vars>>

\* A call of get_last_http_code
GetLastHttpCode ==
  /\ pc \in {"ready", "done"}
  /\ received' = get_last_http_code(_resp)
  /\ call' = "get_last_http_code"
  /\ pc' = "done"
  /\ UNCHANGED <<expected, validate_objects, outcome, _enforce_strict_polygon,
                 _geopy_available, sweep_vars, afc_vars, main_vars>>

\* A handler after __init__
InitAfc ==
  /\ call = "__init__"
  /\ expected = None
  /\ received = None
  /\ validate_objects = FALSE
  /\ pc = "ready"
  /\ outcome = NoOutcome
  /\ _enforce_strict_polygon = FALSE
  /\ _geopy_available = FALSE
  /\ base_url \in {"https", "http"}
  /\ auth_info \in AuthTypes
  /\ _resp = None
  /\ sent = 0
  /\ NoSweep /\ NoTests

NextAfc == SendRequest \/ GetLastResponse \/ GetLastHttpCode

SpecAfc == InitAfc /\ [][NextAfc]_vars

-----------------------------------------------------------------------------
(* Model: the loop over the tests (test_main.py) *)

\* The loop of main by its stages; pc is the stage the running test is at.
\* What the collaborators of the loop hand back (the files, json.loads, the
\* validators, the constructors, the runner) is an input of each stage; the
\* connection handler is the one modelled above.

TestResult == {"EXPECTED", "UNEXPECTED", "SKIPPED"}

TestNames == {"AFCS.FSP.1", "AFCS.SIP.5"}

\* A variant of add_result that stores the name and leaves the count
add_result_NotCounted(named, count, name, test_result) ==
  [named |-> [named EXCEPT ![test_result] = Append(@, name)], count |-> count]

\* TestResultStorage.add_result
add_result(named, count, name, test_result) ==
  [named |-> [named EXCEPT ![test_result] = Append(@, name)],
   count |-> [count EXCEPT ![test_result] = @ + 1]]

\* results.add_result(test_name, test_result) at a line of main, then on to
\* the next test: by continue, or by leaving the try statement; line 370 is
\* the handler of whatever exception the stages let through
AddResult(test_result, line) ==
  LET r == add_result(_named_results, _count_results, tests[test_name], test_result) IN
  /\ _named_results' = r.named
  /\ _count_results' = r.count
  /\ outcome' = Outcome(test_result, line, <<>>)
  /\ pc' = "for"

\* The test goes on to its next stage
NextStage(stage) ==
  /\ pc' = stage
  /\ UNCHANGED <<_named_results, _count_results, outcome>>

\* for test_name in tests: the next test is set up
ForTest ==
  /\ pc = "for"
  /\ test_name < Len(tests)
  /\ test_name' = test_name + 1
  /\ pc' = "mask"
  /\ UNCHANGED <<call, expected, received, validate_objects, outcome,
                 _enforce_strict_polygon, _geopy_available, sweep_vars, afc_vars,
                 tests, _named_results, _count_results>>

\* Lines 247-264: the mask file is read and parsed
LoadMask ==
  /\ pc = "mask"
  /\ \E v \in {"read", "OSError", "JSONDecodeError"} :
       CASE v = "read" -> NextStage("validate_mask")
         [] v = "JSONDecodeError" -> AddResult("SKIPPED", "263")
         [] v = "OSError" -> AddResult("SKIPPED", "370")
  /\ UNCHANGED <<call, expected, received, validate_objects,
                 _enforce_strict_polygon, _geopy_available, sweep_vars, afc_vars,
                 tests, test_name>>

\* Lines 266-274: the mask is validated and converted
ValidateMaskJson ==
  /\ pc = "validate_mask"
  /\ \E v \in {"True", "False", "TypeError"} :
       CASE v = "True" -> NextStage("request")
         [] v = "False" -> AddResult("SKIPPED", "273")
         [] v = "TypeError" -> AddResult("SKIPPED", "370")
  /\ UNCHANGED <<call, expected, received, validate_objects,
                 _enforce_strict_polygon, _geopy_available, sweep_vars, afc_vars,
                 tests, test_name>>

\* Lines 276-291: the request file is read and parsed
LoadRequest ==
  /\ pc = "request"
  /\ \E v \in {"read", "OSError", "JSONDecodeError"} :
       CASE v = "read" -> NextStage("validate_request")
         [] v = "JSONDecodeError" -> AddResult("SKIPPED", "290")
         [] v = "OSError" -> AddResult("SKIPPED", "370")
  /\ UNCHANGED <<call, expected, received, validate_objects,
                 _enforce_strict_polygon, _geopy_available, sweep_vars, afc_vars,
                 tests, test_name>>

\* Lines 293-307: the request is validated; an invalid request is sent if the
\* mask expects an error code
ValidateRequestJson ==
  /\ pc = "validate_request"
  /\ \E valid \in BOOLEAN, expects_error \in {"True", "False", "TypeError"} :
       IF valid \/ expects_error = "True" THEN NextStage("send")
       ELSE IF expects_error = "False" THEN AddResult("SKIPPED", "304")
       ELSE AddResult("SKIPPED", "370")
  /\ UNCHANGED <<call, expected, received, validate_objects,
                 _enforce_strict_polygon, _geopy_available, sweep_vars, afc_vars,
                 tests, test_name>>

\* Lines 309-323: the request is sent and the HTTP code looked at
SendToAfc ==
  /\ pc = "send"
  /\ \E post \in PostOutcomes(sent + 1) :
       LET r == send_request(base_url, auth_info, _resp, post)
           resp_code == get_last_http_code(r._resp)
       IN /\ _resp' = r._resp
          /\ IF r.raised # "" THEN AddResult("SKIPPED", "370")
             ELSE IF resp_code = None THEN AddResult("UNEXPECTED", "317")
             ELSE IF ~(200 <= resp_code[1] /\ resp_code[1] <= 299)
                  THEN AddResult("UNEXPECTED", "322")
             ELSE NextStage("decode")
  /\ sent' = sent + 1
  /\ UNCHANGED <<call, expected, received, validate_objects,
                 _enforce_strict_polygon, _geopy_available, sweep_vars,
                 base_url, auth_info, tests, test_name>>

\* Lines 325-340: the body is decoded and written to the response file
DecodeResponse ==
  /\ pc = "decode"
  /\ LET response == get_last_response(_resp, TRUE) IN
     IF response = Some([raised |-> "JSONDecodeError"])
     THEN AddResult("UNEXPECTED", "331")
     ELSE \E written \in BOOLEAN :
            IF written THEN NextStage("convert") ELSE AddResult("SKIPPED", "370")
  /\ UNCHANGED <<call, expected, received, validate_objects,
                 _enforce_strict_polygon, _geopy_available, sweep_vars, afc_vars,
                 tests, test_name>>

\* Lines 342-354: the response is validated, which decides nothing, and
\* converted
ConvertResponse ==
  /\ pc = "convert"
  /\ \E valid \in BOOLEAN, v \in {"converted", "TypeError", "AttributeError"} :
       CASE v = "converted" -> NextStage("compare")
         [] v = "TypeError" -> AddResult("SKIPPED", "353")
         [] v = "AttributeError" -> AddResult("SKIPPED", "370")
  /\ UNCHANGED <<call, expected, received, validate_objects,
                 _enforce_strict_polygon, _geopy_available, sweep_vars, afc_vars,
                 tests, test_name>>

\* Lines 356-367: the response is compared with the mask
CompareResponse ==
  /\ pc = "compare"
  /\ \E v \in {"True", "False", "ValueError"} :
       CASE v = "True" -> AddResult("EXPECTED", "361")
         [] v = "False" -> AddResult("UNEXPECTED", "364")
         [] v = "ValueError" -> AddResult("SKIPPED", "367")
  /\ UNCHANGED <<call, expected, received, validate_objects,
                 _enforce_strict_polygon, _geopy_available, sweep_vars, afc_vars,
                 tests, test_name>>

\* The list is exhausted: the results are summed up
Summary ==
  /\ pc = "for"
  /\ test_name = Len(tests)
  /\ pc' = "summary"
  /\ UNCHANGED <<call, expected, received, validate_objects, outcome,
                 _enforce_strict_polygon, _geopy_available, sweep_vars, afc_vars,
                 main_vars>>

\* main before the loop: the handler and an empty TestResultStorage
InitMain ==
  /\ call = "main"
  /\ expected = None
  /\ received = None
  /\ validate_objects = FALSE
  /\ pc = "for"
  /\ outcome = NoOutcome
  /\ _enforce_strict_polygon = FALSE
  /\ _geopy_available = FALSE
  /\ NoSweep
  /\ base_url \in {"https", "http"}
  /\ auth_info \in {"None", "ClientCertAuth"}
  /\ _resp = None
  /\ sent = 0
  /\ tests \in UNION {[1..n -> TestNames] : n \in 0..MaxTests}
  /\ test_name = 0
  /\ _named_results = [r \in TestResult |-> <<>>]
  /\ _count_results = [r \in TestResult |-> 0]

NextMain ==
  \/ ForTest
  \/ LoadMask
  \/ ValidateMaskJson
  \/ LoadRequest
  \/ ValidateRequestJson
  \/ SendToAfc
  \/ DecodeResponse
  \/ ConvertResponse
  \/ CompareResponse
  \/ Summary

SpecMain == InitMain /\ [][NextMain]_vars

\* Every stage of the loop is eventually run
SpecMainFair == SpecMain /\ WF_vars(NextMain)

-----------------------------------------------------------------------------
(* Properties *)

\* The records of a level in a log
OfLevel(log, level) == SelectSeq(log, LAMBDA e : e.level = level)

\* The call logged message msg at a level
Logged(level, msg) ==
  \E i \in 1..Len(outcome.log) : outcome.log[i].level = level /\ outcome.log[i].msg = msg

\* The call of run_test_response is over and got as far as the comparison
Compared == Done("run_test_response") /\ outcome.phase = "compare"

\* The numeric values of a list of response codes
CodeValues(codes) == {codes[i].value : i \in 1..Len(codes)}

\* The received code, by its number, is one the mask expects / disallows
ExpectedByValue ==
  received.response.responseCode.value \in CodeValues(expected.expectedResponseCodes)
DisallowedByValue ==
  received.response.responseCode.value \in CodeValues(expected.disallowedResponseCodes)

\* C3: the response code check goes by the numeric code: a code the mask
\* expects passes with an info record; a code the mask disallows is an error
\* and the call does not return True; any other code is a warning only.
C3_ResponseCodeByValue ==
  Compared =>
    /\ ExpectedByValue =>
         Logged("info", "responseCode") /\ ~Logged("error", "responseCode")
                                        /\ ~Logged("warning", "responseCode")
    /\ (~ExpectedByValue /\ DisallowedByValue) =>
         Logged("error", "responseCode") /\ outcome.result # "True"
    /\ (~ExpectedByValue /\ ~DisallowedByValue) =>
         Logged("warning", "responseCode") /\ ~Logged("error", "responseCode")

\* Availability info of a basis the mask does not specify
FrequencyUnspecified ==
  ~IsNone(received.availableFrequencyInfo) /\ IsNone(expected.expectedFrequencyInfo)
ChannelUnspecified ==
  ~IsNone(received.availableChannelInfo) /\ IsNone(expected.expectedChannelInfo)

MaskVerdict ==
  IF call = "run_test_response"
  THEN validate_expected_spectrum_inquiry_response(expected)
  ELSE validate_expected_spectrum_inquiry_response_message(expected)
ReceivedVerdict ==
  IF call = "run_test_response"
  THEN validate_available_spectrum_inquiry_response(received)
  ELSE validate_available_spectrum_inquiry_response_message(received)

\* The same call with validate_objects = False
PlainOutcome ==
  IF call = "run_test_response"
  THEN run_test_response(expected, received, FALSE)
  ELSE run_test_response_message(expected, received, FALSE)

\* C9: with validate_objects = True, (a) a mask that does not pass its
\* validator makes the call raise ValueError after a fatal record and
\* before any comparison, and (b) a received object that does not pass its
\* validator, with a mask that does, gives a warning and then the result of
\* the same call with validate_objects = False.
C9_ValidateObjects ==
  (pc = "done" /\ validate_objects) =>
    /\ ~(MaskVerdict.raised = "none" /\ MaskVerdict.is_valid) =>
         /\ outcome.result = "ValueError"
         /\ outcome.phase = "validate"
         /\ Logged("fatal", "mask validation")
    /\ (MaskVerdict.raised = "none" /\ MaskVerdict.is_valid
        /\ ~ReceivedVerdict.is_valid) =>
         /\ Logged("warning", "received validation")
         /\ outcome.result = PlainOutcome.result

\* The checks of run_test_response the response violates
ViolatedChecks ==
  (IF expected.requestId # received.requestId THEN {"requestId"} ELSE {})
  \cup (IF expected.rulesetId # received.rulesetId THEN {"rulesetId"} ELSE {})
  \cup (IF ~ExpectedByValue /\ DisallowedByValue THEN {"responseCode"} ELSE {})
  \cup (IF ~CheckFrequencyInfo(expected, received).ok THEN {"frequency"} ELSE {})
  \cup (IF ~CheckChannelInfo(expected, received).ok THEN {"channel"} ELSE {})

\* C10: a call of run_test_response that returns has logged at least one
\* error per violated check, and returns True exactly when no check is
\* violated.
C10_OneErrorPerViolatedCheck ==
  (Compared /\ outcome.result \in {"True", "False"}) =>
    /\ Len(OfLevel(outcome.log, "error")) >= Cardinality(ViolatedChecks)
    /\ (outcome.result = "True") <=> (ViolatedChecks = {})

\* The requestIds of a list of masks or responses
Ids(lst) == {lst[i].requestId : i \in 1..Len(lst)}

\* C5: run_test_response_message returns True only if the versions are
\* equal, the two messages hold the same number of responses, every expected
\* requestId is carried by exactly one received response, which satisfies
\* run_test_response against that mask, and every received requestId is an
\* expected one; expected ids A, B with received ids A, A give False.
C5_MessageChecks ==
  Done("run_test_response_message") =>
    LET masks == expected.expectedSpectrumInquiryResponses
        responses == received.availableSpectrumInquiryResponses
    IN /\ outcome.result = "True" =>
            /\ received.version = expected.version
            /\ Len(responses) = Len(masks)
            /\ \A e \in 1..Len(masks) :
                 /\ Cardinality({r \in 1..Len(responses) :
                                   responses[r].requestId = masks[e].requestId}) = 1
                 /\ \A r \in 1..Len(responses) :
                      responses[r].requestId = masks[e].requestId =>
                        run_test_response(masks[e], responses[r], FALSE).result = "True"
            /\ Ids(responses) \subseteq Ids(masks)
       /\ (~validate_objects
           /\ Len(masks) = 2 /\ masks[1].requestId = "A" /\ masks[2].requestId = "B"
           /\ Len(responses) = 2 /\ Ids(responses) = {"A"}) =>
            outcome.result = "False"

\* C5 witness: a message of two responses was found to meet its mask
C5_Witness ==
  /\ Done("run_test_response_message")
  /\ Len(received.availableSpectrumInquiryResponses) = 2
  /\ outcome.result = "True"

\* The lists the availability checks go over
MaskFreq == Get(expected.expectedFrequencyInfo)
RecvFreq == Get(received.availableFrequencyInfo)
MaskChan == Get(expected.expectedChannelInfo)
RecvChan == Get(received.availableChannelInfo)

\* Both sides carry frequency (channel) info and the comparison went over it
FrequencyCompared ==
  /\ Compared
  /\ ~IsNone(expected.expectedFrequencyInfo)
  /\ ~IsNone(received.availableFrequencyInfo)
ChannelCompared ==
  /\ Compared
  /\ ~IsNone(expected.expectedChannelInfo)
  /\ ~IsNone(received.availableChannelInfo)

\* lowerBound <= val <= upperBound, an omitted lowerBound being -inf
Within(range, val) ==
  (range.lowerBound = NegInf \/ range.lowerBound <= val) /\ val <= range.upperBound

\* Frequency f lies in the range fr
Covers(fr, f) == fr.lowFrequency <= f /\ f < fr.highFrequency

\* The records of the frequency sweep about received range r
SweepLog(r) ==
  SelectSeq(outcome.log, LAMBDA e : e.item = r /\ e.msg \in {"psd", "disallowed"})

\* C1: the sweep accounts for every frequency f of every received range R:
\* either a sub-range holding f was compared against an expected entry that
\* covers f (an error exactly when R.maxPsd is outside that entry's bounds),
\* or no expected entry covers f, a 'disallowed' error was logged for a
\* sub-range holding f and the result is False.
C1_SweepAccountsForEveryFrequency ==
  FrequencyCompared =>
    \A r \in 1..Len(RecvFreq) :
      \A f \in RecvFreq[r].frequencyRange.lowFrequency
                 .. (RecvFreq[r].frequencyRange.highFrequency - 1) :
        LET log == SweepLog(r) IN
        \/ \E i \in 1..Len(log) :
             /\ log[i].msg = "psd"
             /\ log[i].a <= f /\ f < log[i].b
             /\ log[i].ref \in 1..Len(MaskFreq)
             /\ Covers(MaskFreq[log[i].ref].frequencyRange, f)
             /\ (log[i].level = "error")
                  <=> ~Within(MaskFreq[log[i].ref].maxPsd, RecvFreq[r].maxPsd)
             /\ log[i].level = "error" => outcome.result # "True"
        \/ /\ \A m \in 1..Len(MaskFreq) : ~Covers(MaskFreq[m].frequencyRange, f)
           /\ \E i \in 1..Len(log) :
                /\ log[i].msg = "disallowed" /\ log[i].level = "error"
                /\ log[i].a <= f /\ f < log[i].b
           /\ outcome.result # "True"

\* C1 witness: a received range of which one part was compared against an
\* expected entry and another part was found disallowed
C1_Witness ==
  /\ FrequencyCompared
  /\ \E r \in 1..Len(RecvFreq) :
       /\ \E i \in 1..Len(SweepLog(r)) : SweepLog(r)[i].msg = "psd"
       /\ \E i \in 1..Len(SweepLog(r)) : SweepLog(r)[i].msg = "disallowed"

\* The expected entries whose range meets the range of received range r
Meeting(r) ==
  {m \in 1..Len(MaskFreq) :
     /\ MaskFreq[m].frequencyRange.lowFrequency < RecvFreq[r].frequencyRange.highFrequency
     /\ RecvFreq[r].frequencyRange.lowFrequency < MaskFreq[m].frequencyRange.highFrequency}

\* Received range r lies inside the range of a single expected entry
InsideSingleEntry(r) ==
  /\ RecvFreq[r].frequencyRange.lowFrequency < RecvFreq[r].frequencyRange.highFrequency
  /\ Cardinality(Meeting(r)) = 1
  /\ \A m \in Meeting(r) :
       /\ MaskFreq[m].frequencyRange.lowFrequency <= RecvFreq[r].frequencyRange.lowFrequency
       /\ RecvFreq[r].frequencyRange.highFrequency <= MaskFreq[m].frequencyRange.highFrequency

\* C2: a received range R inside the range of a single expected entry E is
\* compared once, over the whole of R, and passes exactly when
\* lowerBound <= R.maxPsd <= upperBound, both ends included and lowerBound
\* -inf when omitted: otherwise the one record is an error and the result is
\* False.
C2_PsdWithinInclusiveBounds ==
  FrequencyCompared =>
    \A r \in 1..Len(RecvFreq) :
      InsideSingleEntry(r) =>
        LET E == MaskFreq[CHOOSE m \in Meeting(r) : TRUE]
            log == SweepLog(r)
        IN /\ Len(log) = 1
           /\ log[1].msg = "psd"
           /\ log[1].a = RecvFreq[r].frequencyRange.lowFrequency
           /\ log[1].b = RecvFreq[r].frequencyRange.highFrequency
           /\ (log[1].level = "info") <=> Within(E.maxPsd, RecvFreq[r].maxPsd)
           /\ (log[1].level = "error") <=> ~Within(E.maxPsd, RecvFreq[r].maxPsd)
           /\ ~Within(E.maxPsd, RecvFreq[r].maxPsd) => outcome.result = "False"
           /\ (Within(E.maxPsd, RecvFreq[r].maxPsd)
               /\ Len(OfLevel(outcome.log, "error")) = 0) => outcome.result = "True"

\* C2 witness: a PSD equal to the upper bound of the one entry, whose lower
\* bound is omitted, has passed
C2_Witness ==
  /\ FrequencyCompared
  /\ Len(RecvFreq) = 1 /\ InsideSingleEntry(1)
  /\ \A m \in Meeting(1) :
       /\ MaskFreq[m].maxPsd.upperBound = RecvFreq[1].maxPsd
       /\ MaskFreq[m].maxPsd.lowerBound = NegInf
  /\ outcome.result = "True"

\* The records of the channel checks about received class c
ClassLog(c) ==
  SelectSeq(outcome.log, LAMBDA e : e.item = c /\ e.msg \in {"goc", "cfi", "eirp"})

\* An expected class that is no placeholder
NonEmpty(class) == Len(class.channelCfi) # 0 \/ Len(class.maxEirp) # 0

\* The non-empty expected classes with the operating class of received class c
MatchingClasses(c) ==
  {m \in 1..Len(MaskChan) :
     /\ MaskChan[m].globalOperatingClass = RecvChan[c].globalOperatingClass
     /\ NonEmpty(MaskChan[m])}

\* The mask and the two responses of the scenario
ScenarioMask ==
  <<[globalOperatingClass |-> 131, channelCfi |-> <<1>>,
     maxEirp |-> <<[upperBound |-> 30, nominalValue |-> None, lowerBound |-> 20]>>]>>
ScenarioClass(eirp) ==
  <<[globalOperatingClass |-> 131, channelCfi |-> <<1>>, maxEirp |-> <<eirp>>]>>

\* C4: when a call returns, a received class with exactly one matching
\* expected class E has one record per (cfi, eirp) pair, an error exactly
\* for the pairs whose cfi E does not list or whose eirp is outside the
\* range E pairs with that cfi, and any such pair makes the result False;
\* against the mask {131, [1], [20..30]} an eirp of 25 for cfi 1 gives True
\* and an eirp of 35 gives False with exactly one error.
C4_ChannelPairs ==
  (ChannelCompared /\ outcome.result \in {"True", "False"}) =>
    /\ \A c \in 1..Len(RecvChan) :
         Cardinality(MatchingClasses(c)) = 1 =>
           LET E == MaskChan[CHOOSE m \in MatchingClasses(c) : TRUE]
               R == RecvChan[c]
               n == Min(Len(R.channelCfi), Len(R.maxEirp))
               bad(k) == \A j \in 1..Min(Len(E.channelCfi), Len(E.maxEirp)) :
                           E.channelCfi[j] = R.channelCfi[k]
                             => ~Within(E.maxEirp[j], R.maxEirp[k])
               log == ClassLog(c)
           IN /\ Len(log) = n
              /\ \A k \in 1..n :
                   /\ log[k].a = R.channelCfi[k] /\ log[k].b = R.maxEirp[k]
                   /\ (log[k].level = "error") <=> bad(k)
                   /\ bad(k) => outcome.result = "False"
    /\ (MaskChan = ScenarioMask /\ RecvChan = ScenarioClass(25)
        /\ IsNone(received.availableFrequencyInfo)
        /\ expected.requestId = received.requestId
        /\ expected.rulesetId = received.rulesetId) =>
         outcome.result = "True"
    /\ (MaskChan = ScenarioMask /\ RecvChan = ScenarioClass(35)
        /\ IsNone(received.availableFrequencyInfo)
        /\ expected.requestId = received.requestId
        /\ expected.rulesetId = received.rulesetId) =>
         outcome.result = "False" /\ Len(OfLevel(outcome.log, "error")) = 1

\* C4 witness: of two received pairs of a class the mask has one entry for,
\* one is in order and the other has a CFI the entry does not list
C4_Witness ==
  /\ ChannelCompared /\ outcome.result = "False"
  /\ Len(RecvChan) = 1 /\ Cardinality(MatchingClasses(1)) = 1
  /\ Len(ClassLog(1)) = 2
  /\ ClassLog(1)[1].level = "info"
  /\ ClassLog(1)[2].level = "error" /\ ClassLog(1)[2].msg = "cfi"

\* C7: when a call returns, a received class with no matching non-empty
\* expected class is accepted without a record when it is empty, and is an
\* error that makes the result False when it is not.
C7_UnmatchedClass ==
  (ChannelCompared /\ outcome.result \in {"True", "False"}) =>
    \A c \in 1..Len(RecvChan) :
      MatchingClasses(c) = {} =>
        IF Len(RecvChan[c].channelCfi) = 0 /\ Len(RecvChan[c].maxEirp) = 0
        THEN /\ ClassLog(c) = <<>>
             /\ Len(OfLevel(outcome.log, "error")) = 0 => outcome.result = "True"
        ELSE /\ Len(ClassLog(c)) = 1
             /\ ClassLog(c)[1].level = "error" /\ ClassLog(c)[1].msg = "goc"
             /\ outcome.result = "False"

\* C7 witness: the mask holds only a placeholder for the operating class of
\* a received class that lists channels, and the call returned False
C7_Witness ==
  /\ ChannelCompared /\ outcome.result = "False"
  /\ Len(RecvChan) = 1 /\ Len(RecvChan[1].channelCfi) # 0
  /\ MatchingClasses(1) = {}
  /\ \E m \in 1..Len(MaskChan) :
       MaskChan[m].globalOperatingClass = RecvChan[1].globalOperatingClass

\* The last record of the log is a fatal one
FatalLast ==
  Len(outcome.log) > 0 /\ outcome.log[Len(outcome.log)].level = "fatal"

InvalidFrequencyInfos ==
  {k \in 1..Len(RecvFreq) :
     RecvFreq[k].frequencyRange.highFrequency <= RecvFreq[k].frequencyRange.lowFrequency}

\* C11: validate_available_spectrum_inquiry_response validates every entry
\* of availableFrequencyInfo, also after an earlier entry has failed: there
\* is a warning for each of the entries that is invalid.
C11_EveryEntryValidated ==
  (Done("validate_available_spectrum_inquiry_response")
   /\ ~IsNone(received.availableFrequencyInfo)) =>
    \A k \in InvalidFrequencyInfos :
      \E i \in 1..Len(outcome.log) :
        outcome.log[i].msg = "frequencyRange" /\ outcome.log[i].item = k

\* The response code, by its number, is SUCCESS
IsSuccess == received.response.responseCode.value = 0

\* The entities a response contains are valid
ContainedValid ==
  /\ IsNone(received.availableFrequencyInfo) \/ InvalidFrequencyInfos = {}
  /\ IsNone(received.availableChannelInfo)
       \/ \A k \in 1..Len(RecvChan) : Len(RecvChan[k].channelCfi) = Len(RecvChan[k].maxEirp)
  /\ IsNone(received.availabilityExpireTime)
       \/ Get(received.availabilityExpireTime) \in WellFormedExpireTimes

\* C14: for a response whose contained entities are valid,
\* validate_available_spectrum_inquiry_response returns True exactly when
\* the code is SUCCESS with availabilityExpireTime and at least one of
\* availableFrequencyInfo / availableChannelInfo present, or the code is not
\* SUCCESS with none of the three present.
C14_PresenceRules ==
  (Done("validate_available_spectrum_inquiry_response") /\ ContainedValid) =>
    ((outcome.result = "True")
       <=> \/ /\ IsSuccess
              /\ ~IsNone(received.availabilityExpireTime)
              /\ ~(IsNone(received.availableFrequencyInfo)
                   /\ IsNone(received.availableChannelInfo))
           \/ /\ ~IsSuccess
              /\ IsNone(received.availableFrequencyInfo)
              /\ IsNone(received.availableChannelInfo)
              /\ IsNone(received.availabilityExpireTime))

\* The mask validator was called on a mask that has expectedFrequencyInfo
MaskWithFrequencyInfo ==
  Done("validate_expected_spectrum_inquiry_response")
  /\ ~IsNone(expected.expectedFrequencyInfo)

\* Two entries of the mask's expectedFrequencyInfo overlap
SomeOverlap == ~NoOverlap(MaskFreq)

\* C12: validate_expected_spectrum_inquiry_response returns False for every
\* mask with two overlapping expectedFrequencyInfo entries, with or without
\* expectedChannelInfo, and validates every entry of expectedFrequencyInfo
\* whenever the list is present: each invalid entry has its warning.
C12_FrequencyRulesAlways ==
  MaskWithFrequencyInfo =>
    /\ SomeOverlap => outcome.result = "False"
    /\ \A k \in 1..Len(MaskFreq) :
         ~validate_expected_frequency_info(MaskFreq[k]).is_valid =>
           \E i \in 1..Len(outcome.log) :
             outcome.log[i] = Head(ExpectedFrequencyInfoLog(MaskFreq[k], k))

\* The entities a mask contains are valid
MaskContainedValid ==
  /\ IsNone(expected.expectedFrequencyInfo)
       \/ /\ \A k \in 1..Len(MaskFreq) : validate_expected_frequency_info(MaskFreq[k]).is_valid
          /\ NoOverlap(MaskFreq)
  /\ IsNone(expected.expectedChannelInfo)
       \/ /\ \A k \in 1..Len(MaskChan) : validate_expected_channel_info(MaskChan[k]).is_valid
          /\ \A i, j \in 1..Len(MaskChan) :
               MaskChan[i].globalOperatingClass = MaskChan[j].globalOperatingClass => i = j

\* SUCCESS, by its number, is among the expected codes
ExpectsSuccess == 0 \in CodeValues(expected.expectedResponseCodes)

\* C13: for a mask with valid contained entities and a non-empty
\* expectedResponseCodes, validate_expected_spectrum_inquiry_response returns
\* True exactly when SUCCESS is the only expected code and at least one of
\* expectedFrequencyInfo / expectedChannelInfo is present, or SUCCESS is not
\* expected and neither is present.
C13_ExpectedCodeRules ==
  (Done("validate_expected_spectrum_inquiry_response")
   /\ MaskContainedValid
   /\ Len(expected.expectedResponseCodes) >= 1) =>
    ((outcome.result = "True")
       <=> \/ /\ CodeValues(expected.expectedResponseCodes) = {0}
              /\ ~(IsNone(expected.expectedFrequencyInfo)
                   /\ IsNone(expected.expectedChannelInfo))
           \/ /\ ~ExpectsSuccess
              /\ IsNone(expected.expectedFrequencyInfo)
              /\ IsNone(expected.expectedChannelInfo))

\* C15: validate_expected_power_range returns True exactly when no field is
\* NaN, lowerBound <= upperBound and, when nominalValue is given,
\* lowerBound <= nominalValue <= upperBound; an omitted lowerBound is -inf.
C15_PowerRangeOrder ==
  Done("validate_expected_power_range") =>
    ((outcome.result = "True")
       <=> /\ expected.upperBound # NaN
           /\ expected.lowerBound # NaN
           /\ expected.nominalValue # Some(NaN)
           /\ expected.lowerBound <= expected.upperBound
           /\ ~IsNone(expected.nominalValue) =>
                /\ expected.lowerBound <= Get(expected.nominalValue)
                /\ Get(expected.nominalValue) <= expected.upperBound)

\* A range with all three fields given, in order, was found valid
C15_Witness ==
  /\ Done("validate_expected_power_range")
  /\ ~IsNone(expected.nominalValue)
  /\ expected.lowerBound # NegInf
  /\ expected.lowerBound < Get(expected.nominalValue)
  /\ Get(expected.nominalValue) < expected.upperBound
  /\ expected.upperBound # NaN
  /\ outcome.result = "True"

\* C16: a mask constructed with no disallowedResponseCodes has as
\* disallowedResponseCodes exactly the members of the ResponseCode
\* enumeration that are not in expectedResponseCodes, each once: the two
\* lists are disjoint and together hold every member.  A list that is
\* supplied is kept, element by element.
C16_DisallowedIsComplement ==
  Done("ExpectedSpectrumInquiryResponse") =>
    LET given == received.disallowedResponseCodes
        codes == expected.expectedResponseCodes
        disallowed == expected.disallowedResponseCodes
    IN IF IsNone(given)
       THEN /\ SeqToSet(disallowed) = SeqToSet(CommonMembers) \ SeqToSet(codes)
            /\ Cardinality(SeqToSet(disallowed)) = Len(disallowed)
            /\ SeqToSet(disallowed) \cap SeqToSet(codes) = {}
            /\ SeqToSet(CommonMembers) \subseteq SeqToSet(disallowed) \cup SeqToSet(codes)
       ELSE /\ Len(disallowed) = Len(Get(given))
            /\ \A k \in 1..Len(disallowed) : disallowed[k].value = Get(given)[k].value

\* A mask was constructed from expected codes with a value of the
\* enumeration among them and no disallowed codes
C16_Witness ==
  /\ Done("ExpectedSpectrumInquiryResponse")
  /\ IsNone(received.disallowedResponseCodes)
  /\ \E k \in 1..Len(expected.expectedResponseCodes) :
       expected.expectedResponseCodes[k].cls = CommonCls
  /\ Len(expected.disallowedResponseCodes) < Len(CommonMembers)

\* A polygon validator was called
PolygonValidated == Done("validate_linear_polygon") \/ Done("validate_radial_polygon")

\* The vertices of the polygon validated: the points of a linear polygon,
\* the end points of the vectors of a radial polygon
Boundary ==
  IF call = "validate_linear_polygon" THEN received.outerBoundary
  ELSE [k \in 1..Len(received.outerBoundary) |->
          endpoint_from(received.outerBoundary[k], received.center)]

\* What a polygon can be warned about: the number of its vertices, a vertex
\* given twice, two successive vertices further apart than allowed, two
\* edges that cross
BadCount == Len(received.outerBoundary) < 3 \/ Len(received.outerBoundary) > 15
Duplicates == Len(received.outerBoundary) # Cardinality(SeqToSet(received.outerBoundary))
TooLong ==
  \E k \in 1..Len(Boundary) :
    DistanceSquared(Edges(Boundary)[k].vertex1, Edges(Boundary)[k].vertex2)
      > allowed_distance * allowed_distance
Crossing ==
  \E i, j \in 1..Len(Boundary) :
    LET e == Edges(Boundary)[i]
        f == Edges(Boundary)[j]
    IN /\ Cross(e.vertex1, e.vertex2, f.vertex1) * Cross(e.vertex1, e.vertex2, f.vertex2) < 0
       /\ Cross(f.vertex1, f.vertex2, e.vertex1) * Cross(f.vertex1, f.vertex2, e.vertex2) < 0

\* C20: for a linear or radial polygon of valid points or vectors, a number
\* of vertices outside 3..15, duplicate vertices, an over-long separation
\* and an edge intersection each give a warning; with one of them the
\* validator returns True when _enforce_strict_polygon is off and False
\* when it is on.
C20_StrictPolygon ==
  PolygonValidated =>
    /\ BadCount => Logged("warning", "number of vertices")
    /\ Duplicates => Logged("warning", "non-unique vertices")
    /\ TooLong => Logged("warning", "separation")
    /\ Crossing => Logged("warning", "intersection")
    /\ (BadCount \/ Duplicates \/ TooLong \/ Crossing) =>
         outcome.result = IF _enforce_strict_polygon THEN "False" ELSE "True"

\* A validator of the request side finds x valid: it returns True
Passes(r) == r.raised = "none" /\ r.is_valid

\* The elevation of a location and the shapes it has are each valid
ShapesValid(loc) ==
  /\ Passes(validate_elevation(loc.elevation))
  /\ IsNone(loc.ellipse) \/ Passes(validate_ellipse(Get(loc.ellipse)))
  /\ IsNone(loc.linearPolygon) \/ Passes(validate_linear_polygon(Get(loc.linearPolygon)))
  /\ IsNone(loc.radialPolygon) \/ Passes(validate_radial_polygon(Get(loc.radialPolygon)))

\* indoorDeployment is absent or one of 0, 1, 2
IndoorValid(loc) ==
  IsNone(loc.indoorDeployment) \/ Get(loc.indoorDeployment) \in {0, 1, 2}

\* C18 as stated: for a location whose elevation and populated shapes are
\* valid, validate_location returns True exactly when one of ellipse,
\* linearPolygon, radialPolygon is populated.
C18_ExactlyOneShape ==
  (Done("validate_location") /\ ShapesValid(received)) =>
    ((outcome.result = "True") <=> NumShapes(received) = 1)

\* C18, amended: for a location whose elevation and populated shapes are
\* valid and whose indoorDeployment is absent or one of 0, 1, 2,
\* validate_location returns True exactly when one of ellipse,
\* linearPolygon, radialPolygon is populated, and False otherwise.
C18_ExactlyOneShapeIndoorValid ==
  (Done("validate_location") /\ ShapesValid(received) /\ IndoorValid(received)) =>
    /\ (outcome.result = "True") <=> NumShapes(received) = 1
    /\ outcome.result \in {"True", "False"}

\* A location of two valid shapes was found invalid
C18_Witness ==
  /\ Done("validate_location")
  /\ ShapesValid(received)
  /\ IndoorValid(received)
  /\ NumShapes(received) = 2
  /\ outcome.result = "False"

\* An inquiry list that is present, not empty and of valid entries
GoodFrequencyInquiry(req) ==
  /\ ~IsNone(req.inquiredFrequencyRange)
  /\ Len(Get(req.inquiredFrequencyRange)) >= 1
  /\ \A k \in 1..Len(Get(req.inquiredFrequencyRange)) :
       Get(req.inquiredFrequencyRange)[k].lowFrequency
         < Get(req.inquiredFrequencyRange)[k].highFrequency
GoodChannelInquiry(req) ==
  /\ ~IsNone(req.inquiredChannels)
  /\ Len(Get(req.inquiredChannels)) >= 1
  /\ \A k \in 1..Len(Get(req.inquiredChannels)) :
       Passes(validate_channels(Get(req.inquiredChannels)[k]))

\* What C17 requires of a request: a device descriptor with a certification
\* id, a valid elevation, exactly one valid shape, an inquiry list that is
\* not empty and valid, minDesiredPower absent or with inquiredChannels
WellFormedRequest(req) ==
  /\ Len(req.deviceDescriptor.certificationId) >= 1
  /\ ShapesValid(req.location)
  /\ NumShapes(req.location) = 1
  /\ GoodFrequencyInquiry(req) \/ GoodChannelInquiry(req)
  /\ IsNone(req.minDesiredPower) \/ ~IsNone(req.inquiredChannels)

MessageEntries ==
  CASE call = "validate_available_spectrum_inquiry_request_message" ->
         received.availableSpectrumInquiryRequests
    [] call = "validate_available_spectrum_inquiry_response_message" ->
         received.availableSpectrumInquiryResponses
    [] call = "validate_expected_spectrum_inquiry_response_message" ->
         expected.expectedSpectrumInquiryResponses
    [] OTHER -> <<>>

\* C19: each of the three message validators returns False whenever two of
\* the entries of the message have the same requestId.
C19_DuplicateRequestId ==
  (pc = "done" /\ \E i, j \in 1..Len(MessageEntries) :
                    i # j /\ MessageEntries[i].requestId = MessageEntries[j].requestId) =>
    outcome.result = "False"

\* The sweep by steps logs what the sweep as a whole logs
SweepByStepsAgrees ==
  pc = "swept" =>
    LET whole == SweepAll(SweepMask, SweepReceived, 1) IN
    /\ SubSeq(outcome.log, Len(outcome.log) - Len(whole.log) + 1, Len(outcome.log)) = whole.log
    /\ (outcome.result = "True") <=> whole.ok

\* C21: the frequency sweep of run_test_response terminates: every iteration
\* of the while loop strictly increases curr_freq, whatever the list of
\* expected frequency entries (overlapping, unsorted, high <= low), and the
\* sweep reaches its end.
C21_SweepTerminates ==
  /\ [][WhileIterate => cursor' > cursor]_vars
  /\ <>(pc = "swept")

\* A sweep over a mask with an entry of high <= low and two overlapping
\* entries out of order is in its second iteration
C21_Witness ==
  /\ pc = "while"
  /\ cursor > SweepReceived[recv_item].frequencyRange.lowFrequency
  /\ cursor < SweepReceived[recv_item].frequencyRange.highFrequency
  /\ \E i \in 1..Len(SweepMask) :
       SweepMask[i].frequencyRange.highFrequency <= SweepMask[i].frequencyRange.lowFrequency
  /\ \E i, j \in 1..Len(SweepMask) :
       /\ i < j
       /\ SweepMask[j].frequencyRange.lowFrequency < SweepMask[i].frequencyRange.lowFrequency

\* C23: whenever a validator returns False, at least one violation message
\* was emitted during the call.
C23_FalseIsLogged ==
  (pc = "done" /\ outcome.result = "False") => Len(outcome.log) >= 1

\* C22: what run_test_response returns does not depend on vendorExtensions:
\* the call on the same mask and response with any other vendorExtensions on
\* either side ends in the same way, and differs in warnings only.
C22_VendorExtensionsIgnored ==
  Done("run_test_response") =>
    \A e \in VendorExtensionLists, r \in VendorExtensionLists :
      LET other == run_test_response(WithVendorExtensions(expected, e),
                                     WithVendorExtensions(received, r), validate_objects)
      IN /\ other.result = outcome.result
         /\ OfLevel(other.log, "error") = OfLevel(outcome.log, "error")

\* A comparison with an extension on each side, one of them without
\* extensionId, returned True
C22_Witness ==
  /\ Done("run_test_response")
  /\ expected.vendorExtensions # None
  /\ received.vendorExtensions # None
  /\ received.vendorExtensions # expected.vendorExtensions
  /\ outcome.result = "True"
  /\ Logged("warning", "received vendorExtensions")
  /\ Logged("warning", "expected vendorExtensions")

\* The validators of the model
ValidatorCalls ==
  {"validate_frequency_range", "validate_vendor_extension", "validate_vendor_extension_list",
   "validate_available_spectrum_inquiry_response",
   "validate_available_spectrum_inquiry_response_message",
   "validate_expected_power_range", "validate_expected_spectrum_inquiry_response",
   "validate_expected_spectrum_inquiry_response_message",
   "validate_linear_polygon", "validate_radial_polygon", "validate_location",
   "validate_available_spectrum_inquiry_request",
   "validate_available_spectrum_inquiry_request_message"}

\* C24: every validator call returns a boolean and propagates no exception
\* to its caller, for any input that is a dict or an instance of the target
\* entity type.
C24_ValidatorsReturnBoolean ==
  (pc = "done" /\ call \in ValidatorCalls) => outcome.result \in {"True", "False"}

\* C25: a validator call or a comparison leaves the mask, response, request
\* or raw dict it was given, nested lists included, as it was before.
C25_InputsNotModified ==
  [][(pc = "ready" /\ pc' = "done") => (expected' = expected /\ received' = received)]_vars

SendFailed ==
  \/ outcome.result # "None"
  \/ Logged("warning", "Unable to establish secure connection with AFC")

\* C27: after a call of send_request the handler holds no response of an
\* earlier call: _resp is None or answers the latest request, it is None if
\* the call raised or met an SSLError under client-certificate auth, and
\* get_last_response and get_last_http_code then both return None
C27_OnlyLastCall ==
  (pc = "done" /\ sent > 0) =>
    /\ _resp # None => _resp[1].request = sent
    /\ SendFailed => _resp = None
    /\ (SendFailed /\ call \in {"get_last_response", "get_last_http_code"}) => received = None
    /\ (call = "get_last_http_code" /\ received # None) =>
         \E s \in StatusCodes : received = Some(s) /\ _resp = Some(HttpResponse(s, _resp[1].content, sent))

\* A request was answered, the next one failed, and a getter was called
C27_Witness ==
  /\ pc = "done"
  /\ sent = 2
  /\ base_url = "https"
  /\ outcome.result \in {"ConnectionError", "Timeout", "SSLError"}
  /\ call = "get_last_http_code"
  /\ received = None

\* The mask just validated satisfies every rule its validator documents
MaskSatisfiesRules ==
  /\ MaskContainedValid
  /\ Len(expected.expectedResponseCodes) >= 1
  /\ \/ /\ CodeValues(expected.expectedResponseCodes) = {0}
        /\ ~(IsNone(expected.expectedFrequencyInfo) /\ IsNone(expected.expectedChannelInfo))
     \/ /\ ~ExpectsSuccess
        /\ IsNone(expected.expectedFrequencyInfo)
        /\ IsNone(expected.expectedChannelInfo)

ValidatorNeverTrue ==
  Done("validate_expected_spectrum_inquiry_response") => outcome.result # "True"

\* C29: for a received channel info matched to one expected class, every CFI
\* of the received channelCfi is compared with the mask (an info or error
\* record on its power) or reported as an error, whatever the lengths of
\* channelCfi and maxEirp; no listed CFI is passed over.
C29_EveryCfiChecked ==
  (Done("run_test_response") /\ outcome.result \in {"True", "False"}) =>
    \A c \in 1..Len(RecvChan) :
      Cardinality(MatchingClasses(c)) = 1 =>
        \A k \in 1..Len(RecvChan[c].channelCfi) :
          \E i \in 1..Len(ClassLog(c)) :
            /\ ClassLog(c)[i].msg \in {"cfi", "eirp"}
            /\ ClassLog(c)[i].a = RecvChan[c].channelCfi[k]

\* How many times name occurs in the list lst
Occurrences(lst, name) == Cardinality({k \in 1..Len(lst) : lst[k] = name})

\* How many results are stored for name
StoredFor(name) ==
  Occurrences(_named_results["EXPECTED"], name)
  + Occurrences(_named_results["UNEXPECTED"], name)
  + Occurrences(_named_results["SKIPPED"], name)

\* The tests that have their result: all up to the running one, which has it
\* when the loop is back at its head
Finished == IF pc \in {"for", "summary"} THEN test_name ELSE test_name - 1

=============================================================================
